---------------------------- MODULE Spec2Model ----------------------------
(***************************************************************************)
(* Django Test Manager: the terminal test runner (TestRunner with its      *)
(* DjangoTerminal), the streaming result parser, the status aggregator     *)
(* (TestItem.computeStatus) and test discovery (TestDiscovery).            *)
(*                                                                         *)
(* Text is modelled character by character: a string is a sequence of      *)
(* one-character strings, so that chunk boundaries, line splitting and the *)
(* regular expressions of the parser act on the same data as in the code.  *)
(***************************************************************************)
EXTENDS Integers, Sequences, FiniteSets, TLC

(***************************************************************************)
(* Characters and strings                                                  *)
(***************************************************************************)
NL == "\n"
ESC == "ESC"

Lower ==
    {"a","b","c","d","e","f","g","h","i","j","k","l","m",
     "n","o","p","q","r","s","t","u","v","w","x","y","z"}
Upper ==
    {"A","B","C","D","E","F","G","H","I","J","K","L","M",
     "N","O","P","Q","R","S","T","U","V","W","X","Y","Z"}
Digit == {"0","1","2","3","4","5","6","7","8","9"}

\* \w, \s, [\w\.] and [\d.] of the JavaScript regular expressions
WordChar == Lower \cup Upper \cup Digit \cup {"_"}
SpaceChar == {" ", "\t", "\r", "\n", "\f"}
WordDotChar == WordChar \cup {"."}
DigitDotChar == Digit \cup {"."}

\* null / undefined / "" of a string-valued field: all falsy in the code
Null == << >>
Truthy(s) == s # << >>

\* index of the last character of the maximal run of characters of S that
\* starts at i (i - 1 when s[i] is not in S): a greedy quantifier
RECURSIVE RunEnd(_, _, _)
RunEnd(s, i, S) ==
    IF i <= Len(s) /\ s[i] \in S THEN RunEnd(s, i + 1, S) ELSE i - 1

\* the literal lit occurs in s at index i
HasAt(s, i, lit) ==
    /\ i >= 1
    /\ i + Len(lit) - 1 <= Len(s)
    /\ \A k \in 1..Len(lit) : s[i + k - 1] = lit[k]

\* String.prototype.startsWith / endsWith / includes / substring(n)
StartsWith(s, lit) == HasAt(s, 1, lit)
EndsWith(s, lit) == HasAt(s, Len(s) - Len(lit) + 1, lit)
Includes(s, lit) == \E i \in 1..Len(s) : HasAt(s, i, lit)
Substring(s, n) == SubSeq(s, n + 1, Len(s))

Min(S) == CHOOSE x \in S : \A y \in S : x <= y
Max(S) == CHOOSE x \in S : \A y \in S : y <= x

\* String.prototype.lastIndexOf(c), 1-based; 0 when there is none
LastIndexOf(s, c) ==
    LET at == {i \in 1..Len(s) : s[i] = c}
    IN  IF at = {} THEN 0 ELSE Max(at)

\* String.prototype.split("\n"): the pieces of s from index i on
RECURSIVE SplitFrom(_, _)
SplitFrom(s, i) ==
    LET at == {j \in i..Len(s) : s[j] = NL}
    IN  IF at = {} THEN <<SubSeq(s, i, Len(s))>>
        ELSE <<SubSeq(s, i, Min(at) - 1)>> \o SplitFrom(s, Min(at) + 1)
Split(s) == SplitFrom(s, 1)

(***************************************************************************)
(* The parser's regular expressions (TestRunner, static patterns)          *)
(***************************************************************************)
NoMatch == [ok |-> FALSE]

\* ANSI_CODE_REGEX = /\u001b\[\d+m/g with replace(..., ""): every
\* non-overlapping match, left to right, is removed
\* the index of the last character of the match at index i, 0 for none
AnsiAt(s, i) ==
    LET e == RunEnd(s, i + 2, Digit)
    IN  IF /\ s[i] = ESC
           /\ HasAt(s, i + 1, <<"[">>)
           /\ e >= i + 2
           /\ HasAt(s, e + 1, <<"m">>)
        THEN e + 1
        ELSE 0

RECURSIVE StripAnsiFrom(_, _)
StripAnsiFrom(s, i) ==
    LET at == {j \in i..Len(s) : AnsiAt(s, j) > 0}
    IN  IF at = {} THEN SubSeq(s, i, Len(s))
        ELSE SubSeq(s, i, Min(at) - 1) \o StripAnsiFrom(s, AnsiAt(s, Min(at)) + 1)
StripAnsi(s) == StripAnsiFrom(s, 1)

\* TEST_START_REGEX = /(\w+)\s+\(([\w\.]+)\)/ attempted at index i
TestStartAt(line, i) ==
    LET e1 == RunEnd(line, i, WordChar)
        e2 == RunEnd(line, e1 + 1, SpaceChar)
        e3 == RunEnd(line, e2 + 2, WordDotChar)
    IN  IF /\ e1 >= i
           /\ e2 > e1
           /\ HasAt(line, e2 + 1, <<"(">>)
           /\ e3 >= e2 + 2
           /\ HasAt(line, e3 + 1, <<")">>)
        THEN [ok |-> TRUE,
              method |-> SubSeq(line, i, e1),
              path |-> SubSeq(line, e2 + 2, e3)]
        ELSE NoMatch

\* RegExp.prototype.exec: the leftmost match
TestStartExec(line) ==
    LET at == {i \in 1..Len(line) : TestStartAt(line, i).ok}
    IN  IF at = {} THEN NoMatch ELSE TestStartAt(line, Min(at))

\* the alternation (ok|skipped|FAIL|ERROR), tried in this order
ResultTokens ==
    << <<"o","k">>,
       <<"s","k","i","p","p","e","d">>,
       <<"F","A","I","L">>,
       <<"E","R","R","O","R">> >>

RECURSIVE TokenAt(_, _, _)
TokenAt(line, i, k) ==
    IF k > Len(ResultTokens) THEN << >>
    ELSE IF HasAt(line, i, ResultTokens[k]) THEN ResultTokens[k]
    ELSE TokenAt(line, i, k + 1)

\* the optional group (?:\s+\(([\d.]+)s\))? after the token, which ends at e
ReportedDuration(line, e) ==
    LET s1 == RunEnd(line, e + 1, SpaceChar)
        d1 == RunEnd(line, s1 + 2, DigitDotChar)
    IN  IF /\ s1 > e
           /\ HasAt(line, s1 + 1, <<"(">>)
           /\ d1 >= s1 + 2
           /\ HasAt(line, d1 + 1, <<"s", ")">>)
        THEN SubSeq(line, s1 + 2, d1)
        ELSE << >>

\* RESULT_REGEX = /\.\.\.\s+(ok|skipped|FAIL|ERROR)(?:\s+\(([\d.]+)s\))?/
ResultAt(line, i) ==
    LET e1 == RunEnd(line, i + 3, SpaceChar)
        tok == TokenAt(line, e1 + 1, 1)
    IN  IF /\ HasAt(line, i, <<".", ".", ".">>)
           /\ e1 >= i + 3
           /\ tok # << >>
        THEN [ok |-> TRUE,
              result |-> tok,
              seconds |-> ReportedDuration(line, e1 + Len(tok))]
        ELSE NoMatch

ResultExec(line) ==
    LET at == {i \in 1..Len(line) : ResultAt(line, i).ok}
    IN  IF at = {} THEN NoMatch ELSE ResultAt(line, Min(at))

\* SUMMARY_REGEX = /(FAIL|ERROR):\s+(\w+)\s+\((.+)\)/ attempted at index i;
\* the greedy (.+) runs to the last ")" of the line
SummaryAt(line, i) ==
    LET h  == IF HasAt(line, i, <<"F","A","I","L",":">>) THEN i + 5
              ELSE IF HasAt(line, i, <<"E","R","R","O","R",":">>) THEN i + 6
              ELSE 0
        s1 == RunEnd(line, h, SpaceChar)
        w1 == RunEnd(line, s1 + 1, WordChar)
        s2 == RunEnd(line, w1 + 1, SpaceChar)
        cl == LastIndexOf(line, ")")
    IN  IF /\ h > 0
           /\ s1 >= h
           /\ w1 > s1
           /\ s2 > w1
           /\ HasAt(line, s2 + 1, <<"(">>)
           /\ cl >= s2 + 3
        THEN [ok |-> TRUE,
              method |-> SubSeq(line, s1 + 1, w1),
              path |-> SubSeq(line, s2 + 2, cl - 1)]
        ELSE NoMatch

SummaryExec(line) ==
    LET at == {i \in 1..Len(line) : SummaryAt(line, i).ok}
    IN  IF at = {} THEN NoMatch ELSE SummaryAt(line, Min(at))

\* SEPARATOR_LINE: seventy "-"
SeparatorWidth == 70
SEPARATOR_LINE == [k \in 1..SeparatorWidth |-> "-"]

(***************************************************************************)
(* Status Store (TestStateManager): maps from dottedPath, each an upsert   *)
(***************************************************************************)
Undefined == ""
EmptyMap == [x \in {} |-> Undefined]

Upsert(map, key, value) ==
    [x \in (DOMAIN map) \cup {key} |-> IF x = key THEN value ELSE map[x]]

\* getStatus / getDiff: undefined for a path with no entry
Lookup(map, key) == IF key \in DOMAIN map THEN map[key] ELSE Undefined

InFlight == {"pending", "running"}
Terminal == {"passed", "failed", "skipped", "aborted"}
Statuses == InFlight \cup Terminal \cup {"unknown"}

FailureText == "Test Failed. Check terminal for details."

(***************************************************************************)
(* TestRunner.parseResults: the line loop.  m is the mutable state the     *)
(* loop works on: the store's maps, the parser's fields, and log, the      *)
(* sequence of status writes made so far in this run (a history of what    *)
(* the loop did, tagged with the number of the line that caused it).       *)
(***************************************************************************)
\* the full dotted path of "<method> (<pathInParens>)"
NormalizePath(method, pathInParens) ==
    IF EndsWith(pathInParens, <<".">> \o method) \/ pathInParens = method
    THEN pathInParens
    ELSE pathInParens \o <<".">> \o method

\* setStatus(path, status); what is the text that caused it: the method
\* name of an identifier or of a header, the token of a result
Write(m, path, status, kind, what) ==
    [m EXCEPT !.status = Upsert(@, path, status),
              !.log = Append(@, [line |-> m.lineNo, path |-> path,
                                 status |-> status, kind |-> kind,
                                 what |-> what])]

\* lines 559-575: a test identifier opens the test and marks it running
OnTestStart(m, match) ==
    LET path == NormalizePath(match.method, match.path)
    IN  [Write(m, path, "running", "start", match.method) EXCEPT
            !.parsingTestPath = path,
            !.testStartTimes = @ \cup {path},
            !.shouldRefresh = TRUE]

ResultStatus(result) ==
    IF result = <<"s","k","i","p","p","e","d">> THEN "skipped"
    ELSE IF result \in {<<"F","A","I","L">>, <<"E","R","R","O","R">>}
         THEN "failed"
    ELSE "passed"

\* a variant of OnResult that leaves the test open
OnResultKeepOpen(m, match) ==
    Write(m, m.parsingTestPath, ResultStatus(match.result), "result", match.result)

\* lines 580-627: the terminal result of the open test
OnResult(m, match) ==
    LET path == m.parsingTestPath
        status == ResultStatus(match.result)
        m1 == [m EXCEPT
                 !.shouldRefresh = @ \/ status # "passed",
                 !.failureMessages =
                     IF status = "failed" THEN Upsert(@, path, FailureText)
                     ELSE @,
                 !.durations =
                     IF Truthy(match.seconds)
                     THEN Upsert(@, path, <<"reported", match.seconds>>)
                     ELSE IF path \in m.testStartTimes
                          THEN Upsert(@, path, <<"measured">>)
                          ELSE @]
    IN  [Write(m1, path, status, "result", match.result) EXCEPT !.parsingTestPath = Null]

\* lines 632-647: a failure header of the summary section
OnSummary(m, match) ==
    LET fullPath == NormalizePath(match.method, match.path)
    IN  [Write(m, fullPath, "failed", "summary", match.method) EXCEPT
            !.parsingFailureForPath = fullPath,
            !.failureBlock = << >>,
            !.shouldRefresh = TRUE]

\* a variant of DiffText that joins the lines without their newlines
RECURSIVE DiffTextJoined(_, _)
DiffTextJoined(lines, marker) ==
    IF lines = << >> THEN << >>
    ELSE (IF StartsWith(Head(lines), <<marker, " ">>)
          THEN Substring(Head(lines), 2)
          ELSE << >>) \o DiffTextJoined(Tail(lines), marker)

\* processFailureBlock: "- " lines are the expected text, "+ " the actual
RECURSIVE DiffText(_, _)
DiffText(lines, marker) ==
    IF lines = << >> THEN << >>
    ELSE (IF StartsWith(Head(lines), <<marker, " ">>)
          THEN Substring(Head(lines), 2) \o <<NL>>
          ELSE << >>) \o DiffText(Tail(lines), marker)

ProcessFailureBlock(diffs, testPath, lines) ==
    IF \E k \in 1..Len(lines) :
          StartsWith(lines[k], <<"-", " ">>) \/ StartsWith(lines[k], <<"+", " ">>)
    THEN Upsert(diffs, testPath,
                [expected |-> DiffText(lines, "-"), actual |-> DiffText(lines, "+")])
    ELSE diffs

\* lines 649-657: inside a failure block
OnBlockLine(m, line) ==
    IF StartsWith(line, SEPARATOR_LINE)
    THEN [m EXCEPT
            !.diffs = ProcessFailureBlock(@, m.parsingFailureForPath, m.failureBlock),
            !.parsingFailureForPath = Null,
            !.failureBlock = << >>]
    ELSE [m EXCEPT !.failureBlock = Append(@, line)]

\* one iteration of the loop of lines 552-658
ParseLine(m, line) ==
    LET ts == TestStartExec(line)
        m1 == IF ts.ok THEN OnTestStart(m, ts) ELSE m
        rs == ResultExec(line)
        sm == SummaryExec(line)
    IN  IF Len(line) = 0 THEN m
        ELSE IF Truthy(m1.parsingTestPath) /\ rs.ok THEN OnResult(m1, rs)
        ELSE IF sm.ok THEN OnSummary(m1, sm)
        ELSE IF Truthy(m1.parsingFailureForPath) THEN OnBlockLine(m1, line)
        ELSE m1

\* a variant of the loop that takes the lines of a batch last to first
RECURSIVE ParseLinesBackward(_, _, _, _)
ParseLinesBackward(m, lines, base, i) ==
    IF i > Len(lines) THEN m
    ELSE ParseLinesBackward(
             ParseLine([m EXCEPT !.lineNo = base + Len(lines) - i],
                       lines[Len(lines) - i + 1]),
             lines, base, i + 1)

\* the loop: lines[i] is line number base + i - 1 of the run's stream
RECURSIVE ParseLines(_, _, _, _)
ParseLines(m, lines, base, i) ==
    IF i > Len(lines) THEN m
    ELSE ParseLines(ParseLine([m EXCEPT !.lineNo = base + i - 1], lines[i]),
                    lines, base, i + 1)

\* lines 660-672: the summary fallback for a leaf under observation
IsLeaf(node) == Len(node.children) = 0

LeafSummary(m, node, cleanOutput) ==
    IF ~IsLeaf(node) THEN m
    ELSE IF \/ Includes(cleanOutput, <<"F","A","I","L","E","D"," ","(","f","a","i","l","u","r","e","s","=">>)
            \/ Includes(cleanOutput, <<"F","A","I","L","E","D"," ","(","e","r","r","o","r","s","=">>)
         THEN IF Truthy(node.dottedPath)
              THEN [Write(m, node.dottedPath, "failed", "leaf", Null) EXCEPT !.shouldRefresh = TRUE]
              ELSE m
    ELSE IF Includes(cleanOutput, <<"O","K">>)
         THEN IF Truthy(node.dottedPath)
              THEN Write(m, node.dottedPath, "passed", "leaf", Null)
              ELSE m
    ELSE m

\* TestRunner.parseResults(node, output); afterwards lineNo is the number
\* of the first line not yet handed over (output holds Len(lines) - 1
\* newlines)
ParseResults(m, node, output) ==
    LET cleanOutput == StripAnsi(output)
        lines == Split(cleanOutput)
        looped == ParseLines(m, lines, m.lineNo, 1)
        m1 == [looped EXCEPT !.lineNo = m.lineNo + Len(lines) - 1]
    IN  LeafSummary(m1, node, cleanOutput)

(***************************************************************************)
(* The discovered tree the runner works on: file m (m.py at the workspace  *)
(* root) with class C and its test method t, and class D with its test    *)
(* method v.  Discovery registered the file's path in the store with  *)
(* status unknown.                                                         *)
(***************************************************************************)
P_m == <<"m">>
P_C == <<"m", ".", "C">>
P_t == <<"m", ".", "C", ".", "t">>
P_D == <<"m", ".", "D">>
P_v == <<"m", ".", "D", ".", "v">>

NodeT == [type |-> "method", dottedPath |-> P_t, children |-> << >>]
NodeV == [type |-> "method", dottedPath |-> P_v, children |-> << >>]
NodeC == [type |-> "class", dottedPath |-> P_C, children |-> <<NodeT>>]
NodeD == [type |-> "class", dottedPath |-> P_D, children |-> <<NodeV>>]
NodeM == [type |-> "file", dottedPath |-> P_m, children |-> <<NodeC, NodeD>>]
cachedRoots == <<NodeM>>

\* the node the "run all" command passes: no dottedPath
AllRequest == [type |-> "folder", dottedPath |-> Null, children |-> << >>]
RunRequests == {AllRequest, NodeT}

\* TestTreeDataProvider.findNode: depth first, the first node with the path
RECURSIVE FindIn(_, _, _)
FindIn(nodes, dottedPath, i) ==
    IF i > Len(nodes) THEN << >>
    ELSE IF nodes[i].dottedPath = dottedPath THEN <<nodes[i]>>
    ELSE LET found == FindIn(nodes[i].children, dottedPath, 1)
         IN  IF found # << >> THEN found ELSE FindIn(nodes, dottedPath, i + 1)
FindNode(dottedPath) == FindIn(cachedRoots, dottedPath, 1)

\* runInTerminal, lines 184-204: the node the run watches when the
\* provider's forest is roots
EffectiveNodeIn(roots, node) ==
    IF ~Truthy(node.dottedPath)
    THEN [type |-> "folder", dottedPath |-> Null, children |-> roots]
    ELSE LET realNode == FindIn(roots, node.dottedPath, 1)
         IN  IF realNode # << >> THEN realNode[1] ELSE node
EffectiveNode(node) == EffectiveNodeIn(cachedRoots, node)

\* the paths of a node and of all its descendants
RECURSIVE PathsUnder(_)
PathsUnder(node) ==
    (IF Truthy(node.dottedPath) THEN {node.dottedPath} ELSE {})
    \cup UNION {PathsUnder(node.children[i]) : i \in 1..Len(node.children)}

\* runInTerminal, setPendingRecursive
RECURSIVE SetPendingRecursive(_, _)
RECURSIVE SetPendingEach(_, _, _)
SetPendingEach(st, nodes, i) ==
    IF i > Len(nodes) THEN st
    ELSE SetPendingEach(SetPendingRecursive(st, nodes[i]), nodes, i + 1)
SetPendingRecursive(st, n) ==
    SetPendingEach(IF Truthy(n.dottedPath) THEN Upsert(st, n.dottedPath, "pending") ELSE st,
                   n.children, 1)

(***************************************************************************)
(* Configuration read by buildTestCommandParts and finalizeNodeStatus      *)
(***************************************************************************)
FailFastFlag == "--failfast"

\* testProfiles[activeProfile] (defined or not) and testArguments
Configs ==
    {c \in [profileDefined : BOOLEAN,
            profileArgs : {<< >>, <<FailFastFlag>>},
            testArguments : {<< >>, <<FailFastFlag>>}] :
        c.profileDefined \/ c.profileArgs = << >>}

ArrayIncludes(arr, x) == \E i \in 1..Len(arr) : arr[i] = x

\* buildTestCommandParts, lines 278-280: the arguments of the command
RawTestArgs(cfg) ==
    (IF cfg.profileDefined THEN cfg.profileArgs ELSE << >>) \o cfg.testArguments

\* finalizeNodeStatus, lines 502-508
IsFailFast(cfg) ==
    ArrayIncludes(IF cfg.profileDefined THEN cfg.profileArgs ELSE cfg.testArguments,
                  FailFastFlag)

\* finalizeNodeStatus(node, success)
RECURSIVE FinalizeNodeStatus(_, _, _, _)
RECURSIVE FinalizeEach(_, _, _, _, _)
FinalizeEach(st, nodes, success, failFast, i) ==
    IF i > Len(nodes) THEN st
    ELSE FinalizeEach(FinalizeNodeStatus(st, nodes[i], success, failFast),
                      nodes, success, failFast, i + 1)
FinalizeNodeStatus(st, node, success, failFast) ==
    LET st1 == FinalizeEach(st, node.children, success, failFast, 1)
    IN  IF Truthy(node.dottedPath) /\ Lookup(st1, node.dottedPath) = "pending"
        THEN Upsert(st1, node.dottedPath,
                    IF success THEN "passed"
                    ELSE IF failFast THEN "skipped" ELSE "unknown")
        ELSE st1

(***************************************************************************)
(* TestItem.computeStatus: the status the tree shows for a node            *)
(***************************************************************************)
\* a variant of computeStatus in which pending precedes running
RECURSIVE ComputeStatusPendingFirst(_, _)
ComputeStatusPendingFirst(st, node) ==
    LET directStatus ==
            IF Truthy(node.dottedPath) THEN Lookup(st, node.dottedPath)
            ELSE Undefined
        childStatus ==
            {ComputeStatusPendingFirst(st, node.children[i]) :
                i \in 1..Len(node.children)}
    IN  IF Len(node.children) = 0
        THEN (IF directStatus # Undefined THEN directStatus ELSE "unknown")
        ELSE IF "pending" \in childStatus THEN "pending"
        ELSE IF "running" \in childStatus THEN "running"
        ELSE IF directStatus # Undefined THEN directStatus
        ELSE "unknown"

\* a variant of computeStatus in which a passed child precedes a failed one
RECURSIVE ComputeStatusPassedFirst(_, _)
ComputeStatusPassedFirst(st, node) ==
    LET directStatus ==
            IF Truthy(node.dottedPath) THEN Lookup(st, node.dottedPath)
            ELSE Undefined
        childStatus ==
            {ComputeStatusPassedFirst(st, node.children[i]) :
                i \in 1..Len(node.children)}
        result ==
            IF "passed" \in childStatus THEN "passed"
            ELSE IF "failed" \in childStatus THEN "failed"
            ELSE IF "aborted" \in childStatus THEN "aborted"
            ELSE IF "skipped" \in childStatus THEN "skipped"
            ELSE "unknown"
    IN  IF Len(node.children) = 0
        THEN (IF directStatus # Undefined THEN directStatus ELSE "unknown")
        ELSE IF "running" \in childStatus THEN "running"
        ELSE IF "pending" \in childStatus THEN "pending"
        ELSE IF directStatus = "failed" THEN "failed"
        ELSE IF result = "unknown" /\ directStatus # Undefined THEN directStatus
        ELSE result

\* a variant of computeStatus without the override by the node's own failure
RECURSIVE ComputeStatusNoOverride(_, _)
ComputeStatusNoOverride(st, node) ==
    LET directStatus ==
            IF Truthy(node.dottedPath) THEN Lookup(st, node.dottedPath)
            ELSE Undefined
        childStatus ==
            {ComputeStatusNoOverride(st, node.children[i]) :
                i \in 1..Len(node.children)}
        result ==
            IF "failed" \in childStatus THEN "failed"
            ELSE IF "passed" \in childStatus THEN "passed"
            ELSE IF "aborted" \in childStatus THEN "aborted"
            ELSE IF "skipped" \in childStatus THEN "skipped"
            ELSE "unknown"
    IN  IF Len(node.children) = 0
        THEN (IF directStatus # Undefined THEN directStatus ELSE "unknown")
        ELSE IF "running" \in childStatus THEN "running"
        ELSE IF "pending" \in childStatus THEN "pending"
        ELSE IF result = "unknown" /\ directStatus # Undefined THEN directStatus
        ELSE result

\* a variant of computeStatus in which skipped precedes aborted
RECURSIVE ComputeStatusSkippedFirst(_, _)
ComputeStatusSkippedFirst(st, node) ==
    LET directStatus ==
            IF Truthy(node.dottedPath) THEN Lookup(st, node.dottedPath)
            ELSE Undefined
        childStatus ==
            {ComputeStatusSkippedFirst(st, node.children[i]) :
                i \in 1..Len(node.children)}
        result ==
            IF "failed" \in childStatus THEN "failed"
            ELSE IF "passed" \in childStatus THEN "passed"
            ELSE IF "skipped" \in childStatus THEN "skipped"
            ELSE IF "aborted" \in childStatus THEN "aborted"
            ELSE "unknown"
    IN  IF Len(node.children) = 0
        THEN (IF directStatus # Undefined THEN directStatus ELSE "unknown")
        ELSE IF "running" \in childStatus THEN "running"
        ELSE IF "pending" \in childStatus THEN "pending"
        ELSE IF directStatus = "failed" THEN "failed"
        ELSE IF result = "unknown" /\ directStatus # Undefined THEN directStatus
        ELSE result

RECURSIVE ComputeStatus(_, _)
ComputeStatus(st, node) ==
    LET directStatus ==
            IF Truthy(node.dottedPath) THEN Lookup(st, node.dottedPath)
            ELSE Undefined
        childStatus ==
            {ComputeStatus(st, node.children[i]) : i \in 1..Len(node.children)}
        result ==
            IF "failed" \in childStatus THEN "failed"
            ELSE IF "passed" \in childStatus THEN "passed"
            ELSE IF "aborted" \in childStatus THEN "aborted"
            ELSE IF "skipped" \in childStatus THEN "skipped"
            ELSE "unknown"
    IN  IF Len(node.children) = 0
        THEN (IF directStatus # Undefined THEN directStatus ELSE "unknown")
        ELSE IF "running" \in childStatus THEN "running"
        ELSE IF "pending" \in childStatus THEN "pending"
        ELSE IF directStatus = "failed" THEN "failed"
        ELSE IF result = "unknown" /\ directStatus # Undefined THEN directStatus
        ELSE result

(***************************************************************************)
(* Test discovery (TestDiscovery): paths and the patterns of parseFile     *)
(***************************************************************************)
\* path.sep
Sep == "/"

\* String.prototype.split(c) for a one-character separator c
RECURSIVE SplitOnFrom(_, _, _)
SplitOnFrom(s, c, i) ==
    LET at == {j \in i..Len(s) : s[j] = c}
    IN  IF at = {} THEN <<SubSeq(s, i, Len(s))>>
        ELSE <<SubSeq(s, i, Min(at) - 1)>> \o SplitOnFrom(s, c, Min(at) + 1)
SplitOn(s, c) == SplitOnFrom(s, c, 1)

\* String.prototype.trimStart
TrimStart(s) == Substring(s, RunEnd(s, 1, SpaceChar))

\* every occurrence of the character c replaced by the character d
ReplaceAll(s, c, d) == [i \in 1..Len(s) |-> IF s[i] = c THEN d ELSE s[i]]

Str_py == <<".","p","y">>
Str_tests == <<"t","e","s","t","s">>
Str_test == <<"t","e","s","t">>
Str_class == <<"c","l","a","s","s">>
Str_def == <<"d","e","f">>
Str_async == <<"a","s","y","n","c">>
Str_Test == <<"T","e","s","t">>

\* path.basename
Basename(p) == Substring(p, LastIndexOf(p, Sep))

\* relativePath.replace(/\.py$/, '') with every separator replaced by '.'
FileDottedPath(relativePath) ==
    ReplaceAll(IF EndsWith(relativePath, Str_py)
               THEN SubSeq(relativePath, 1, Len(relativePath) - Len(Str_py))
               ELSE relativePath,
               Sep, ".")

\* classRegex = /^class\s+(\w+)(?:\(([^)]+)\))?/ ; the second group is Null
\* when the optional part does not match
ClassExec(line) ==
    LET e1 == RunEnd(line, Len(Str_class) + 1, SpaceChar)
        e2 == RunEnd(line, e1 + 1, WordChar)
        e3 == RunEnd(line, e2 + 2, {line[k] : k \in 1..Len(line)} \ {")"})
    IN  IF /\ StartsWith(line, Str_class)
           /\ e1 >= Len(Str_class) + 1
           /\ e2 >= e1 + 1
        THEN [ok |-> TRUE,
              className |-> SubSeq(line, e1 + 1, e2),
              baseClasses |->
                  IF /\ HasAt(line, e2 + 1, <<"(">>)
                     /\ e3 >= e2 + 2
                     /\ HasAt(line, e3 + 1, <<")">>)
                  THEN SubSeq(line, e2 + 2, e3)
                  ELSE Null]
        ELSE NoMatch

\* config.get('testMethodPattern') || 'test_'
TestMethodPrefix == <<"t","e","s","t","_">>

\* methodRegex = new RegExp('^\\s+(?:async\\s+)?def\\s+(' + prefix + '\\w+)')
MethodExec(line, prefix) ==
    LET e0 == RunEnd(line, 1, SpaceChar)
        ea == RunEnd(line, e0 + Len(Str_async) + 1, SpaceChar)
        d  == IF HasAt(line, e0 + 1, Str_async) /\ ea >= e0 + Len(Str_async) + 1
              THEN ea ELSE e0
        e1 == RunEnd(line, d + Len(Str_def) + 1, SpaceChar)
        e2 == RunEnd(line, e1 + Len(prefix) + 1, WordChar)
    IN  IF /\ e0 >= 1
           /\ HasAt(line, d + 1, Str_def)
           /\ e1 >= d + Len(Str_def) + 1
           /\ HasAt(line, e1 + 1, prefix)
           /\ e2 >= e1 + Len(prefix) + 1
        THEN [ok |-> TRUE, methodName |-> SubSeq(line, e1 + 1, e2)]
        ELSE NoMatch

(***************************************************************************)
(* Recognition of test classes (testUtils.ts)                              *)
(***************************************************************************)
\* getTestBaseClasses(): DEFAULT_TEST_BASE_CLASSES, no custom base class
\* being configured
DEFAULT_TEST_BASE_CLASSES ==
    { <<"T","e","s","t","C","a","s","e">>
    , <<"T","r","a","n","s","a","c","t","i","o","n","T","e","s","t","C","a","s","e">>
    , <<"S","i","m","p","l","e","T","e","s","t","C","a","s","e">>
    , <<"L","i","v","e","S","e","r","v","e","r","T","e","s","t","C","a","s","e">>
    , <<"S","t","a","t","i","c","L","i","v","e","S","e","r","v","e","r","T","e","s","t","C","a","s","e">>
    , <<"A","P","I","T","e","s","t","C","a","s","e">>
    , <<"A","P","I","S","i","m","p","l","e","T","e","s","t","C","a","s","e">>
    , <<"A","P","I","T","r","a","n","s","a","c","t","i","o","n","T","e","s","t","C","a","s","e">>
    , <<"A","s","y","n","c","T","e","s","t","C","a","s","e">>
    , <<"I","s","o","l","a","t","e","d","A","s","y","n","c","i","o","T","e","s","t","C","a","s","e">>
    , <<"u","n","i","t","t","e","s","t",".","T","e","s","t","C","a","s","e">>
    , <<"T","e","s","t","S","u","i","t","e">>
    }

\* isTestClass(className, baseClasses) with baseClasses a comma-separated
\* string, Null when the declaration names none
isTestClass(className, baseClasses) ==
    \/ StartsWith(className, Str_Test)
    \/ /\ Truthy(baseClasses)
       /\ LET bases == SplitOn(baseClasses, ",")
          IN  \E i \in 1..Len(bases) :
                  LET start == TrimStart(bases[i])
                      baseClass ==
                          SubSeq(start, 1,
                                 Max({0} \cup {k \in 1..Len(start) : start[k] \notin SpaceChar}))
                      baseClassName == Substring(baseClass, LastIndexOf(baseClass, "."))
                  IN  \/ baseClassName \in DEFAULT_TEST_BASE_CLASSES
                      \/ StartsWith(baseClassName, Str_Test)

(***************************************************************************)
(* TestDiscovery.parseFile                                                 *)
(***************************************************************************)
\* null: no node
NoNode == [type |-> "null"]

\* one line of the scan; acc holds the children of the file node so far
\* and currentClass, the index among them of the open class node (0: none)
ScanLine(acc, line, uri, fileDottedPath) ==
    LET trimmed == TrimStart(line)
        classMatch == ClassExec(line)
        methodMatch == MethodExec(line, TestMethodPrefix)
    IN  IF StartsWith(trimmed, (Str_class \o <<" ">>)) /\ classMatch.ok
        THEN IF StartsWith(classMatch.className, Str_Test)
             THEN [children |->
                       Append(acc.children,
                              [name |-> classMatch.className,
                               type |-> "class",
                               uri |-> uri,
                               dottedPath |-> fileDottedPath \o <<".">> \o classMatch.className,
                               children |-> << >>]),
                   currentClass |-> Len(acc.children) + 1]
             ELSE [acc EXCEPT !.currentClass = 0]
        ELSE IF /\ \/ StartsWith(trimmed, (Str_def \o <<" ">>))
                   \/ StartsWith(trimmed, (Str_async \o <<" ">> \o Str_def \o <<" ">>))
                /\ methodMatch.ok
        THEN IF acc.currentClass # 0
             THEN LET c == acc.children[acc.currentClass]
                  IN  [acc EXCEPT !.children[acc.currentClass].children =
                           Append(c.children,
                                  [name |-> methodMatch.methodName,
                                   type |-> "method",
                                   uri |-> uri,
                                   dottedPath |-> c.dottedPath \o <<".">> \o methodMatch.methodName,
                                   children |-> << >>])]
             ELSE [acc EXCEPT !.children =
                       Append(acc.children,
                              [name |-> methodMatch.methodName,
                               type |-> "method",
                               uri |-> uri,
                               dottedPath |-> fileDottedPath \o <<".">> \o methodMatch.methodName,
                               children |-> << >>])]
        ELSE acc

\* the loop over the lines, in order
RECURSIVE ScanLines(_, _, _)
ScanLines(lines, uri, fileDottedPath) ==
    IF lines = << >> THEN [children |-> << >>, currentClass |-> 0]
    ELSE LET acc == ScanLines(SubSeq(lines, 1, Len(lines) - 1), uri, fileDottedPath)
         IN  ScanLine(acc, lines[Len(lines)], uri, fileDottedPath)

\* parseFile(uri) when the file holds content; uri is the path relative to
\* the workspace root
ParseContent(uri, content) ==
    LET pathParts == SplitOn(uri, Sep)
        isInTestsDirectory ==
            \E i \in 1..Len(pathParts) : pathParts[i] \in {Str_tests, Str_test}
        isTestFile == Basename(uri) \in {Str_test \o Str_py, Str_tests \o Str_py}
    IN
    IF ~isInTestsDirectory /\ ~isTestFile THEN NoNode
    ELSE LET fileDottedPath == FileDottedPath(uri)
             children == ScanLines(Split(content), uri, fileDottedPath).children
         IN  IF Len(children) > 0
             THEN [name |-> Basename(uri),
                   type |-> "file",
                   uri |-> uri,
                   dottedPath |-> fileDottedPath,
                   children |-> children]
             ELSE NoNode

(***************************************************************************)
(* TestDiscovery.structureTests and sortNodes                              *)
(***************************************************************************)
\* String.prototype.localeCompare with the default collation: the strings
\* are compared letter by letter without regard to case, punctuation before
\* digits before letters, a shorter string before its extensions; strings
\* that differ in case only are ordered by the first such difference, the
\* lower-case letter first
LocaleCompare(a, b) ==
    LET lower ==
            <<"a","b","c","d","e","f","g","h","i","j","k","l","m",
              "n","o","p","q","r","s","t","u","v","w","x","y","z">>
        upper ==
            <<"A","B","C","D","E","F","G","H","I","J","K","L","M",
              "N","O","P","Q","R","S","T","U","V","W","X","Y","Z">>
        order == <<"_", "-", ".", "0","1","2","3","4","5","6","7","8","9">> \o lower
        toLower(c) ==
            IF c \in Upper THEN lower[CHOOSE i \in 1..Len(upper) : upper[i] = c]
            ELSE c
        weight(c) == CHOOSE i \in 1..Len(order) : order[i] = toLower(c)
        n == Min({Len(a), Len(b)})
        primary == {i \in 1..n : weight(a[i]) # weight(b[i])}
        tertiary == {i \in 1..n : a[i] # b[i]}
    IN  IF primary # {}
        THEN (IF weight(a[Min(primary)]) < weight(b[Min(primary)]) THEN -1 ELSE 1)
        ELSE IF Len(a) # Len(b) THEN (IF Len(a) < Len(b) THEN -1 ELSE 1)
        ELSE IF tertiary # {}
        THEN (IF a[Min(tertiary)] \in Lower THEN -1 ELSE 1)
        ELSE 0

\* a variant of the comparison function that puts the folders last
CompareNodesFoldersLast(a, b) ==
    IF a.type = "folder" /\ b.type # "folder" THEN 1
    ELSE IF a.type # "folder" /\ b.type = "folder" THEN -1
    ELSE LocaleCompare(a.name, b.name)

\* the comparison function of sortNodes: folders first, then by name
CompareNodes(a, b) ==
    IF a.type = "folder" /\ b.type # "folder" THEN -1
    ELSE IF a.type # "folder" /\ b.type = "folder" THEN 1
    ELSE LocaleCompare(a.name, b.name)

\* nodes.sort(...) of sortNodes: Array.prototype.sort is stable
RECURSIVE SortLevel(_)
SortLevel(nodes) ==
    IF nodes = << >> THEN << >>
    ELSE LET sorted == SortLevel(SubSeq(nodes, 1, Len(nodes) - 1))
             n == nodes[Len(nodes)]
             k == Cardinality({i \in 1..Len(sorted) : CompareNodes(sorted[i], n) <= 0})
         IN  SubSeq(sorted, 1, k) \o <<n>> \o SubSeq(sorted, k + 1, Len(sorted))

\* a variant of sortNodes that leaves every level as assembled
SortNodesAsAssembled(nodes) == nodes

RECURSIVE SortNodes(_)
SortNodes(nodes) ==
    LET sorted == SortLevel(nodes)
    IN  [i \in 1..Len(sorted) |->
            [sorted[i] EXCEPT !.children = SortNodes(sorted[i].children)]]

\* the walk of structureTests over the directories of a file's path: the
\* folder of each part is found by name in the current level or created
\* there, and the file node is pushed into the last level
RECURSIVE PlaceNode(_, _, _, _)
PlaceNode(currentLevel, parts, currentPath, node) ==
    IF Len(parts) <= 1 THEN Append(currentLevel, node)
    ELSE LET part == Head(parts)
             nextPath == IF Truthy(currentPath)
                         THEN currentPath \o <<Sep>> \o part ELSE part
             found == {i \in 1..Len(currentLevel) :
                          /\ currentLevel[i].name = part
                          /\ currentLevel[i].type = "folder"}
         IN  IF found # {}
             THEN [currentLevel EXCEPT ![Min(found)].children =
                      PlaceNode(currentLevel[Min(found)].children,
                                Tail(parts), nextPath, node)]
             ELSE Append(currentLevel,
                         [name |-> part,
                          type |-> "folder",
                          uri |-> nextPath,
                          dottedPath |-> ReplaceAll(nextPath, Sep, "."),
                          children |-> PlaceNode(<< >>, Tail(parts), nextPath, node)])

\* the loop of structureTests over the file nodes, before the sort
RECURSIVE AssembleNodes(_)
AssembleNodes(nodes) ==
    IF nodes = << >> THEN << >>
    ELSE LET node == nodes[Len(nodes)]
             rootNodes == AssembleNodes(SubSeq(nodes, 1, Len(nodes) - 1))
         IN  IF ~Truthy(node.uri) THEN rootNodes
             ELSE PlaceNode(rootNodes, SplitOn(node.uri, Sep), Null, node)

\* structureTests(nodes): the forest it returns
StructureTests(nodes) == SortNodes(AssembleNodes(nodes))

\* a variant of the registration that writes unknown over an entry
RegisterNodeAfresh(st, node) ==
    IF Truthy(node.dottedPath) THEN Upsert(st, node.dottedPath, "unknown") ELSE st

\* structureTests(nodes): the registration of a file node in the store
RegisterNode(st, node) ==
    IF Truthy(node.dottedPath) /\ Lookup(st, node.dottedPath) = Undefined
    THEN Upsert(st, node.dottedPath, "unknown")
    ELSE st

RECURSIVE RegisterNodes(_, _)
RegisterNodes(st, nodes) ==
    IF nodes = << >> THEN st
    ELSE LET before == RegisterNodes(st, SubSeq(nodes, 1, Len(nodes) - 1))
         IN  RegisterNode(before, nodes[Len(nodes)])

(***************************************************************************)
(* vscode.workspace.findFiles with the patterns of discover()              *)
(***************************************************************************)
\* the files of fs that match '**/{tests/**/*.py,test.py,tests.py}' and do
\* not match '**/{node_modules,venv,.venv,env,.env}/**'
FindFiles(fs) ==
    LET excluded ==
            { <<"n","o","d","e","_","m","o","d","u","l","e","s">>,
              <<"v","e","n","v">>, <<".","v","e","n","v">>,
              <<"e","n","v">>, <<".","e","n","v">> }
        found(relativePath) ==
            LET parts == SplitOn(relativePath, Sep)
                directories == {parts[i] : i \in 1..(Len(parts) - 1)}
            IN  /\ \/ Str_tests \in directories /\ EndsWith(parts[Len(parts)], Str_py)
                   \/ parts[Len(parts)] \in {Str_test \o Str_py, Str_tests \o Str_py}
                /\ directories \cap excluded = {}
    IN  {p \in DOMAIN fs : found(p)}

(***************************************************************************)
(* What the test subprocess may print                                      *)
(***************************************************************************)
P_total ==
    <<"b","i","l","l","i","n","g",".","t","e","s","t","s",".","t","e","s",
      "t","_","i","n","v","o","i","c","e",".","I","n","v","o","i","c","e",
      "T","e","s","t","s",".","t","e","s","t","_","t","o","t","a","l">>
P_tax ==
    <<"b","i","l","l","i","n","g",".","t","e","s","t","s",".","t","e","s",
      "t","_","i","n","v","o","i","c","e",".","I","n","v","o","i","c","e",
      "T","e","s","t","s",".","t","e","s","t","_","t","a","x">>
\* "test_total (billing.tests.test_invoice.InvoiceTests) ... ok"
Str_total_ok ==
    <<"t","e","s","t","_","t","o","t","a","l"," ","(","b","i","l","l","i",
      "n","g",".","t","e","s","t","s",".","t","e","s","t","_","i","n","v",
      "o","i","c","e",".","I","n","v","o","i","c","e","T","e","s","t","s",
      ")"," ",".",".","."," ","o","k">>
\* "test_tax (billing.tests.test_invoice.InvoiceTests) ... FAIL"
Str_tax_FAIL ==
    <<"t","e","s","t","_","t","a","x"," ","(","b","i","l","l","i","n","g",
      ".","t","e","s","t","s",".","t","e","s","t","_","i","n","v","o","i",
      "c","e",".","I","n","v","o","i","c","e","T","e","s","t","s",")"," ",
      ".",".","."," ","F","A","I","L">>
\* "FAIL: test_tax (billing.tests.test_invoice.InvoiceTests)"
Str_FAIL_tax ==
    <<"F","A","I","L",":"," ","t","e","s","t","_","t","a","x"," ","(","b",
      "i","l","l","i","n","g",".","t","e","s","t","s",".","t","e","s","t",
      "_","i","n","v","o","i","c","e",".","I","n","v","o","i","c","e","T",
      "e","s","t","s",")">>
Str_minus_100 ==
    <<"-"," ","1","0","0">>
Str_plus_110 ==
    <<"+"," ","1","1","0">>
Str_FAILED_1 ==
    <<"F","A","I","L","E","D"," ","(","f","a","i","l","u","r","e","s","=",
      "1",")">>
\* "FAIL: t (m.C)"
Str_FAIL_t ==
    <<"F","A","I","L",":"," ","t"," ","(","m",".","C",")">>
\* "t (m.C) ... skipped" and "OK (skipped=1)"
Str_t_skipped ==
    <<"t"," ","(","m",".","C",")"," ",".",".","."," ","s","k","i","p","p","e","d">>
Str_OK_skipped_1 ==
    <<"O","K"," ","(","s","k","i","p","p","e","d","=","1",")">>
Str_t_ok ==
    <<"t"," ","(","m",".","C",")"," ",".",".","."," ","o","k">>
Str_v ==
    <<"v"," ","(","m",".","D",")">>
\* the result of a test that has a docstring: the docstring, then the token
Str_doc_skipped ==
    <<"d"," ",".",".","."," ","s","k","i","p","p","e","d">>
\* a migration applied before the tests run (verbosity 2)
Str_migration_OK ==
    <<"a",".",".","."," ","O","K">>
Str_t_FAIL ==
    <<"t"," ","(","m",".","C",")"," ",".",".","."," ","F","A","I","L">>
\* the token in colour
Str_t_ok_green ==
    <<"t"," ","(","m",".","C",")"," ",".",".","."," ",ESC,"[","3","2","m",
      "o","k",ESC,"[","0","m">>
\* the path in parentheses is the method name itself
Str_self_ok ==
    <<"t"," ","(","t",")"," ",".",".","."," ","o","k">>
\* a token with no identifier before it
Str_x_ERROR ==
    <<"x"," ",".",".","."," ","E","R","R","O","R">>
\* the path in parentheses names the method (Python 3.11), with a duration
Str_dotted_ok ==
    <<"t"," ","(","m",".","C",".","t",")"," ",".",".","."," ","o","k"," ",
      "(","0",".","5","s",")">>

\* the lines of a text, each ended by a newline
RECURSIVE Unlines(_)
Unlines(lines) ==
    IF lines = << >> THEN << >>
    ELSE Head(lines) \o <<NL>> \o Unlines(Tail(lines))

\* t passes; v is announced and its result never arrives
OutCrash == Unlines(<<Str_t_ok, Str_v>>)
\* v is announced, its result follows on the docstring's line
OutDoc == Unlines(<<Str_v, Str_doc_skipped>>)
\* a migration is reported OK, then t fails
OutMigrate == Unlines(<<Str_migration_OK, Str_t_FAIL>>)
OutGreen == Unlines(<<Str_t_ok_green>>)
OutSelf == Unlines(<<Str_self_ok, Str_x_ERROR>>)
\* the process dies in the middle of its second line
OutCut == Unlines(<<Str_dotted_ok>>) \o Str_v
\* one passing and one failing test with the failure's report
OutInvoice ==
    Unlines(<<Str_total_ok, Str_tax_FAIL, SEPARATOR_LINE, Str_FAIL_tax,
              Str_minus_100, Str_plus_110, SEPARATOR_LINE, Str_FAILED_1>>)

\* the report of t's failure holds a line that names v
OutReport == Unlines(<<Str_FAIL_t, Str_v, SEPARATOR_LINE>>)

\* t is skipped, and the run's summary follows
OutSkipped == Unlines(<<Str_t_skipped, Str_OK_skipped_1>>)

RunOutputs == {OutCrash}
ParserOutputs ==
    {OutCrash, OutDoc, OutMigrate, OutGreen, OutSelf, OutCut, OutInvoice,
     OutReport, OutSkipped}
ParserRequests == {AllRequest, NodeT}

(***************************************************************************)
(* State                                                                   *)
(***************************************************************************)
MaxRuns == 2
MaxCancels == 1
\* the size of the chunks in which a process's output arrives (the last
\* chunk holds the rest)
ChunkLen == 15

VARIABLES
    \* TestStateManager
    status, failureMessages, durations, diffs,
    \* TestRunner
    parsingBuffer, parsingTestPath, parsingFailureForPath, failureBlock,
    testStartTimes, isParsing, parsingInterval, cancelTimeouts,
    djangoTerminal, isRunning,
    \* DjangoTerminal.process: the number of the process held, 0 for undefined
    process,
    \* the subprocesses spawned so far and the configuration
    procs, runs, config,
    \* history: the text received and handed to parseResults since the last
    \* reset, the parser's status writes, the line counter, what happened
    received, consumed, log, lineNo, hist,
    \* the tree item built last: the node's dottedPath and the status shown
    treeItem,
    \* the workspace's Python files: the text of each path that exists
    files,
    \* TestDiscovery.fileNodes: the pairs of uri and file node, in the
    \* order of insertion
    fileNodes,
    \* TestTreeDataProvider.cachedRoots as discovery returned it last
    rootNodes,
    \* the timeout of the watcher's debounce: the uri its closure holds,
    \* NoTimeout for undefined
    debounceTimeout,
    \* Date.now() in milliseconds, TestRunner.lastRefreshTime, and
    \* TestRunner.refreshTimeout: the time its timer is due, 0 for undefined
    now, lastRefreshTime, refreshTimeout,
    \* history of treeDataProvider.refresh(): the time and the kind of the
    \* last firing, the time of the last firing made by triggerRefresh, and
    \* whether a call of triggerRefresh is still waiting for a firing
    refreshed

storeVars == <<status, failureMessages, durations, diffs>>
parserVars ==
    <<parsingBuffer, parsingTestPath, parsingFailureForPath, failureBlock,
      testStartTimes, isParsing, consumed, log, lineNo>>
vars ==
    <<status, failureMessages, durations, diffs,
      parsingBuffer, parsingTestPath, parsingFailureForPath, failureBlock,
      testStartTimes, isParsing, parsingInterval, cancelTimeouts,
      djangoTerminal, isRunning, process, procs, runs, config,
      received, consumed, log, lineNo, hist, treeItem,
      files, fileNodes, rootNodes, debounceTimeout,
      now, lastRefreshTime, refreshTimeout, refreshed>>
NoTimeout == << >>
discoveryVars == <<files, fileNodes, rootNodes, debounceTimeout>>
refreshVars == <<now, lastRefreshTime, refreshTimeout, refreshed>>

\* a subprocess: state (none, alive, error: the spawn failed and the error
\* event is due, exited), the text it prints and how much of it was
\* delivered, the node its callbacks watch, the signals sent to it, the
\* arguments of its command, the code of its exit event, and whether data
\* was delivered after the exit event
NoProc ==
    [state |-> "none", out |-> << >>, sent |-> 0, watch |-> AllRequest,
     sigterm |-> FALSE, sigint |-> 0, commandArgs |-> << >>,
     exit |-> "", lateData |-> FALSE]

\* cancels: calls of cancel(); cancelled: cancel() was called while the
\* current run's process was alive; mixed: the buffer received data of a
\* process other than the current run's since the last reset
NoHist == [cancelled |-> FALSE, cancels |-> 0, mixed |-> FALSE]

NoItem == [dottedPath |-> Null, status |-> Undefined]

\* the default settings: profile "Default" with no arguments, and no
\* --failfast among testArguments
DefaultConfig ==
    [profileDefined |-> TRUE, profileArgs |-> << >>, testArguments |-> << >>]

\* the state after the extension is activated and discovery has run: the
\* store's other maps, the parser's fields and the history
InitFields ==
    /\ failureMessages = EmptyMap
    /\ durations = EmptyMap
    /\ diffs = EmptyMap
    /\ parsingBuffer = << >>
    /\ parsingTestPath = Null
    /\ parsingFailureForPath = Null
    /\ failureBlock = << >>
    /\ testStartTimes = {}
    /\ isParsing = FALSE
    /\ cancelTimeouts = 0
    /\ received = << >>
    /\ consumed = << >>
    /\ log = << >>
    /\ lineNo = 1
    /\ hist = NoHist
    /\ treeItem = NoItem
    /\ config = DefaultConfig

\* TestRunner.REFRESH_INTERVAL
REFRESH_INTERVAL == 200

\* no firing yet
NoRefresh == [time |-> -1, kind |-> "none", throttled |-> -1, requested |-> FALSE]

\* the fields of the refresh throttle after construction; Date.now() is
\* far beyond lastRefreshTime = 0
InitRefresh ==
    /\ now = REFRESH_INTERVAL + 100
    /\ lastRefreshTime = 0
    /\ refreshTimeout = 0
    /\ refreshed = NoRefresh

\* no run was started yet
InitIdle ==
    /\ InitRefresh
    /\ parsingInterval = 0
    /\ djangoTerminal = FALSE
    /\ isRunning = FALSE
    /\ process = 0
    /\ procs = [p \in 1..MaxRuns |-> NoProc]
    /\ runs = 0

\* discovery is not at work in the specifications of the runner and of the
\* status: their tree is cachedRoots above
InitNoDiscovery ==
    /\ files = EmptyMap
    /\ fileNodes = << >>
    /\ rootNodes = << >>
    /\ debounceTimeout = NoTimeout

\* discovery registered the file's path
InitStore == Upsert(EmptyMap, P_m, "unknown")

Init ==
    /\ status = InitStore
    /\ InitFields
    /\ InitIdle
    /\ InitNoDiscovery

\* the fields parseResults and processParsingBuffer work on
Machine ==
    [status |-> status, failureMessages |-> failureMessages,
     durations |-> durations, diffs |-> diffs,
     parsingBuffer |-> parsingBuffer, parsingTestPath |-> parsingTestPath,
     parsingFailureForPath |-> parsingFailureForPath,
     failureBlock |-> failureBlock, testStartTimes |-> testStartTimes,
     isParsing |-> isParsing, consumed |-> consumed, log |-> log,
     lineNo |-> lineNo, shouldRefresh |-> FALSE]

Commit(m) ==
    /\ status' = m.status
    /\ failureMessages' = m.failureMessages
    /\ durations' = m.durations
    /\ diffs' = m.diffs
    /\ parsingBuffer' = m.parsingBuffer
    /\ parsingTestPath' = m.parsingTestPath
    /\ parsingFailureForPath' = m.parsingFailureForPath
    /\ failureBlock' = m.failureBlock
    /\ testStartTimes' = m.testStartTimes
    /\ isParsing' = m.isParsing
    /\ consumed' = m.consumed
    /\ log' = m.log
    /\ lineNo' = m.lineNo

\* a variant of processParsingBuffer that empties the buffer: the line
\* begun after the last newline is dropped
ProcessParsingBufferClearing(m, nodeToWatch) ==
    IF m.isParsing \/ Len(m.parsingBuffer) = 0 THEN m
    ELSE LET lastNewlineIndex == LastIndexOf(m.parsingBuffer, NL)
             completeLines == SubSeq(m.parsingBuffer, 1, lastNewlineIndex)
             m1 == [m EXCEPT !.isParsing = TRUE,
                             !.parsingBuffer = << >>,
                             !.consumed = @ \o completeLines]
         IN  IF lastNewlineIndex # 0
             THEN [ParseResults(m1, nodeToWatch, completeLines) EXCEPT !.isParsing = FALSE]
             ELSE m

\* a variant of processParsingBuffer without the finally block: the flag
\* stays set after a pass
ProcessParsingBufferNoFinally(m, nodeToWatch) ==
    IF m.isParsing \/ Len(m.parsingBuffer) = 0 THEN m
    ELSE LET lastNewlineIndex == LastIndexOf(m.parsingBuffer, NL)
             completeLines == SubSeq(m.parsingBuffer, 1, lastNewlineIndex)
             m1 == [m EXCEPT !.isParsing = TRUE,
                             !.parsingBuffer = Substring(@, lastNewlineIndex),
                             !.consumed = @ \o completeLines]
         IN  IF lastNewlineIndex # 0
             THEN ParseResults(m1, nodeToWatch, completeLines)
             ELSE m1

\* TestRunner.processParsingBuffer(nodeToWatch): only the complete lines,
\* up to the last newline, are handed to parseResults
ProcessParsingBuffer(m, nodeToWatch) ==
    IF m.isParsing \/ Len(m.parsingBuffer) = 0 THEN m
    ELSE LET lastNewlineIndex == LastIndexOf(m.parsingBuffer, NL)
             completeLines == SubSeq(m.parsingBuffer, 1, lastNewlineIndex)
             m1 == [m EXCEPT !.isParsing = TRUE,
                             !.parsingBuffer = Substring(@, lastNewlineIndex),
                             !.consumed = @ \o completeLines]
         IN  IF lastNewlineIndex # 0
             THEN [ParseResults(m1, nodeToWatch, completeLines) EXCEPT !.isParsing = FALSE]
             ELSE m

(***************************************************************************)
(* Actions                                                                 *)
(***************************************************************************)
\* DjangoTerminal.runCommand, lines 299-314: an active process is sent
\* SIGTERM and the handle is replaced by the new process
RunCommand(ps, held, id, fresh) ==
    [p \in DOMAIN ps |->
        IF p = id THEN fresh
        ELSE IF p = held THEN [ps[p] EXCEPT !.sigterm = TRUE]
        ELSE ps[p]]

\* cp.spawn, testTree.ts 316-320: the new subprocess
Spawn(nodeToWatch, out, spawned, cfg) ==
    [state |-> IF spawned THEN "alive" ELSE "error",
     out |-> IF spawned THEN out ELSE << >>,
     sent |-> 0, watch |-> nodeToWatch,
     sigterm |-> FALSE, sigint |-> 0,
     commandArgs |-> RawTestArgs(cfg),
     exit |-> "", lateData |-> FALSE]

\* TestRunner.runInTerminal(node) with executeCommandInTerminal: the
\* subtree is set to pending, the parser is reset, the timer restarted and
\* the command spawned.  out is what the new process is going to print;
\* spawned is whether the spawn succeeds.
RunInTerminalOver(roots, node, out, spawned) ==
    LET id == runs + 1
        effectiveNode == EffectiveNodeIn(roots, node)
        fresh == Spawn(effectiveNode, out, spawned, config)
    IN  /\ runs < MaxRuns
        /\ runs' = id
        /\ status' = SetPendingRecursive(status, effectiveNode)
        /\ parsingBuffer' = << >>
        /\ parsingTestPath' = Null
        /\ isRunning' = TRUE
        /\ djangoTerminal' = TRUE
        /\ parsingInterval' = id
        /\ procs' = RunCommand(procs, process, id, fresh)
        /\ process' = id
        /\ received' = << >>
        /\ consumed' = << >>
        /\ log' = << >>
        /\ lineNo' = 1
        /\ hist' = [hist EXCEPT !.cancelled = FALSE, !.mixed = FALSE]
        /\ UNCHANGED <<discoveryVars, refreshVars, treeItem, failureMessages, durations, diffs, parsingFailureForPath,
                       failureBlock, testStartTimes, isParsing, cancelTimeouts,
                       config>>

\* the run over the tree of the runner's specifications
RunInTerminal(node, out, spawned) == RunInTerminalOver(cachedRoots, node, out, spawned)

\* the data callback of process p (stdout or stderr), lines 412-415: the
\* chunk is appended to the runner's buffer
OnData(p, k) ==
    /\ procs[p].state \in {"alive", "exited"}
    /\ k >= 1
    /\ procs[p].sent + k <= Len(procs[p].out)
    /\ LET data == SubSeq(procs[p].out, procs[p].sent + 1, procs[p].sent + k)
       IN  /\ parsingBuffer' = parsingBuffer \o data
           /\ received' = received \o data
    /\ procs' = [procs EXCEPT ![p].sent = @ + k,
                              ![p].lateData = @ \/ procs[p].state = "exited"]
    /\ hist' = [hist EXCEPT !.mixed = @ \/ p # runs]
    /\ UNCHANGED <<discoveryVars, refreshVars, treeItem, storeVars, parsingTestPath, parsingFailureForPath, failureBlock,
                   testStartTimes, isParsing, parsingInterval, cancelTimeouts,
                   djangoTerminal, isRunning, process, runs, config,
                   consumed, log, lineNo>>

\* the interval timer of lines 402-404, every 200 ms
Tick ==
    /\ parsingInterval # 0
    /\ Commit(ProcessParsingBuffer(Machine, procs[parsingInterval].watch))
    /\ UNCHANGED <<discoveryVars, refreshVars, treeItem, parsingInterval, cancelTimeouts, djangoTerminal, isRunning,
                   process, procs, runs, config, received, hist>>

\* the exit callback of lines 416-444, called by the terminal's exit and
\* error handlers (testTree.ts 336-346) with code || 0, resp. 1
ExitCallback(p, code, event) ==
    LET m0 == [Machine EXCEPT !.isParsing = FALSE]
        m1 == ProcessParsingBuffer(m0, procs[p].watch)
        m2 == [m1 EXCEPT !.status =
                  FinalizeNodeStatus(@, procs[p].watch, code = "0", IsFailFast(config))]
    IN  /\ process' = 0
        /\ parsingInterval' = 0
        /\ Commit(m2)
        /\ isRunning' = FALSE
        /\ procs' = [procs EXCEPT ![p].state = "exited", ![p].exit = event]
        /\ UNCHANGED <<discoveryVars, refreshVars, treeItem, cancelTimeouts, djangoTerminal, runs, config, received, hist>>

\* testTree.ts 337: code || 0
CodeOrZero(code) == IF code = "null" THEN "0" ELSE code

\* the process ends: with an exit code, or killed by a signal (SIGTERM of a
\* restart, SIGINT of a cancel, or one from outside); the code of the exit
\* event is then null
ProcessExit(p, code) ==
    /\ procs[p].state = "alive"
    /\ ExitCallback(p, CodeOrZero(code), code)

\* the spawn failed: the error event
ProcessError(p) ==
    /\ procs[p].state = "error"
    /\ ExitCallback(p, "1", "error")

\* DjangoTerminal.sendSignal
SendSignal(ps, held) ==
    [p \in DOMAIN ps |->
        IF p = held /\ ps[p].state = "alive" THEN [ps[p] EXCEPT !.sigint = @ + 1]
        ELSE ps[p]]

\* a variant of the loop of cancel() that leaves the running entries alone
AbortPending(st) ==
    [key \in DOMAIN st |-> IF st[key] = "pending" THEN "aborted" ELSE st[key]]

\* cancel(), lines 352-360
AbortInFlight(st) ==
    [key \in DOMAIN st |-> IF st[key] \in {"pending", "running"} THEN "aborted" ELSE st[key]]

\* TestRunner.cancel(), invoked at most bound times
CancelWithin(bound) ==
    /\ djangoTerminal
    /\ hist.cancels < bound
    /\ procs' = SendSignal(procs, process)
    /\ cancelTimeouts' = cancelTimeouts + 1
    /\ status' = AbortInFlight(status)
    /\ isRunning' = FALSE
    /\ hist' = [hist EXCEPT !.cancels = @ + 1,
                            !.cancelled = @ \/ procs[runs].state = "alive"]
    /\ UNCHANGED <<discoveryVars, refreshVars, treeItem, failureMessages, durations, diffs, parserVars, parsingInterval,
                   djangoTerminal, process, runs, config, received>>

\* TestRunner.cancel()
Cancel == CancelWithin(MaxCancels)

\* the 500 ms timeout of cancel(), lines 344-348
CancelTimeout ==
    /\ cancelTimeouts > 0
    /\ cancelTimeouts' = cancelTimeouts - 1
    /\ procs' = IF isParsing /\ djangoTerminal THEN SendSignal(procs, process) ELSE procs
    /\ UNCHANGED <<discoveryVars, refreshVars, treeItem, storeVars, parserVars, parsingInterval, djangoTerminal, isRunning,
                   process, runs, config, received, hist>>

\* the size of the next chunk of process p
ChunkOf(p) ==
    IF Len(procs[p].out) - procs[p].sent < ChunkLen
    THEN Len(procs[p].out) - procs[p].sent
    ELSE ChunkLen

Next ==
    \/ \E node \in RunRequests, out \in RunOutputs, spawned \in BOOLEAN :
          RunInTerminal(node, out, spawned)
    \/ \E p \in 1..MaxRuns : OnData(p, ChunkOf(p))
    \/ Tick
    \/ \E p \in 1..MaxRuns, code \in {"0", "1", "null"} : ProcessExit(p, code)
    \/ \E p \in 1..MaxRuns : ProcessError(p)
    \/ Cancel
    \/ CancelTimeout

Spec == Init /\ [][Next]_vars

(***************************************************************************)
(* The parser at work: one run of a node, started from the initial state,  *)
(* whose output arrives in chunks of any size before the process exits.    *)
(***************************************************************************)
MaxChunk == 2

InitParser ==
    \E node \in ParserRequests, out \in ParserOutputs :
        LET effectiveNode == EffectiveNode(node)
        IN  /\ status = SetPendingRecursive(InitStore, effectiveNode)
            /\ InitFields
            /\ InitNoDiscovery
            /\ InitRefresh
            /\ parsingInterval = 1
            /\ djangoTerminal = TRUE
            /\ isRunning = TRUE
            /\ process = 1
            /\ procs = [p \in 1..MaxRuns |->
                          IF p = 1 THEN Spawn(effectiveNode, out, TRUE, DefaultConfig)
                          ELSE NoProc]
            /\ runs = 1

\* what process p has not delivered yet
Rest(p) == Len(procs[p].out) - procs[p].sent

NextParser ==
    \/ \E k \in (1..MaxChunk) \cup {Rest(1)} :
          /\ procs[1].state = "alive"
          /\ OnData(1, k)
    \/ Tick
    \/ \E code \in {"0", "1"} : ProcessExit(1, code)

SpecParser == InitParser /\ [][NextParser]_vars

(***************************************************************************)
(* The tree at work: the store holds any statuses for the nodes of the     *)
(* tree and the view builds the nodes' items.                              *)
(***************************************************************************)
TreeNodes == {NodeM, NodeC, NodeD, NodeT, NodeV}
Composites == {n \in TreeNodes : Len(n.children) > 0}

\* the store's entries for the tree: the file's path has one since
\* discovery, every other path may have none
StoreStates ==
    {[x \in {y \in DOMAIN f : f[y] # Undefined} |-> f[x]] :
        f \in {g \in [{n.dottedPath : n \in TreeNodes} -> Statuses \cup {Undefined}] :
                   g[P_m] # Undefined}}

InitStatus ==
    /\ status \in StoreStates
    /\ InitFields
    /\ InitIdle
    /\ InitNoDiscovery

\* TestTreeDataProvider.getTreeItem: new TestItem(node)
GetTreeItem(node) ==
    /\ treeItem' = [dottedPath |-> node.dottedPath,
                    status |-> ComputeStatus(status, node)]
    /\ UNCHANGED <<storeVars, parserVars, parsingInterval, cancelTimeouts,
                   djangoTerminal, isRunning, process, procs, runs, config,
                   received, hist, discoveryVars, refreshVars>>

NextStatus == \E node \in TreeNodes : GetTreeItem(node)

SpecStatus == InitStatus /\ [][NextStatus]_vars

(***************************************************************************)
(* Discovery at work: the workspace holds Python files, the tree view      *)
(* asks for the roots, and the file watcher reports changes.               *)
(***************************************************************************)
\* the paths of the workspace, relative to its root
Path_tests_py == <<"t","e","s","t","s",".","p","y">>
Path_tests_test_a == <<"t","e","s","t","s","/","t","e","s","t","_","a",".","p","y">>
Path_test_test_b == <<"t","e","s","t","/","t","e","s","t","_","b",".","p","y">>
Paths == {Path_tests_py, Path_tests_test_a, Path_test_test_b}

\* the texts a file may hold
\* two test classes, not in the order of their names:
\*   class TestZ: / def test_y(self): / class Test_a: / async def test_x(self):
TextClasses ==
    Unlines(<<
        <<"c","l","a","s","s"," ","T","e","s","t","Z",":">>,
        <<" "," "," "," ","d","e","f"," ","t","e","s","t","_","y","(","s","e","l","f",")",":">>,
        <<" "," "," "," "," "," "," "," ","p","a","s","s">>,
        <<"c","l","a","s","s"," ","T","e","s","t","_","a",":">>,
        <<" "," "," "," ","a","s","y","n","c"," ","d","e","f"," ","t","e","s","t","_","x","(","s","e","l","f",")",":">>,
        <<" "," "," "," "," "," "," "," ","p","a","s","s">> >>)
\* a test case named after what it tests:
\*   class InvoiceTests(TestCase): / def test_total(self):
TextInvoice ==
    Unlines(<<
        <<"c","l","a","s","s"," ","I","n","v","o","i","c","e","T","e","s","t","s","(","T","e","s","t","C","a","s","e",")",":">>,
        <<" "," "," "," ","d","e","f"," ","t","e","s","t","_","t","o","t","a","l","(","s","e","l","f",")",":">>,
        <<" "," "," "," "," "," "," "," ","p","a","s","s">> >>)
\* a test class without test methods: class TestEmpty(TestCase): / pass
TextEmptyClass ==
    Unlines(<<
        <<"c","l","a","s","s"," ","T","e","s","t","E","m","p","t","y","(","T","e","s","t","C","a","s","e",")",":">>,
        <<" "," "," "," "," "," "," "," ","p","a","s","s">> >>)
\* no test at all: import os
TextPlain ==
    Unlines(<<
        <<"i","m","p","o","r","t"," ","o","s">> >>)
\* a test function at the top level of the module: def test_f(): / pass
TextFunction ==
    Unlines(<<
        <<"d","e","f"," ","t","e","s","t","_","f","(",")",":">>,
        <<" "," "," "," ","p","a","s","s">> >>)
Texts == {TextClasses, TextInvoice, TextEmptyClass, TextPlain, TextFunction}

\* parseFile for each path and each text of the workspace
ParsedContent == [uri \in Paths |-> [content \in Texts |-> ParseContent(uri, content)]]

\* what a file holds when vscode.workspace.fs.readFile rejects
Unreadable == <<"EACCES">>
Contents == Texts \cup {Unreadable}

\* parseFile(uri) over the file system fs: reading a file that does not
\* exist or cannot be read throws, and the error is caught
ParseFile(fs, uri) ==
    IF uri \in DOMAIN fs /\ fs[uri] # Unreadable
    THEN ParsedContent[uri][fs[uri]] ELSE NoNode

\* the file systems: some of the paths exist, each with one of the texts
\* or unreadable
FileSystems == UNION {[S -> Contents] : S \in SUBSET Paths}

\* cachedRoots is undefined until the first discovery
Undiscovered == <<NoNode>>

\* the orders in which findFiles may enumerate the files of S
Enumerations(S) ==
    {o \in [1..Cardinality(S) -> S] : \A p \in S : \E i \in DOMAIN o : o[i] = p}

\* Map.prototype.set and delete on fileNodes, and Array.from(values())
MapSet(map, node) ==
    LET at == {i \in 1..Len(map) : map[i].uri = node.uri}
    IN  IF at # {} THEN [map EXCEPT ![Min(at)] = node] ELSE Append(map, node)
MapDelete(map, uri) == SelectSeq(map, LAMBDA n : n.uri # uri)

\* the file nodes of the index after structureTests: sortNodes has sorted
\* their children in place
SortedInPlace(nodes) ==
    [i \in 1..Len(nodes) |-> [nodes[i] EXCEPT !.children = SortNodes(nodes[i].children)]]

\* a run's state, which discovery leaves alone
runnerVars ==
    <<parserVars, parsingInterval, cancelTimeouts, djangoTerminal, isRunning,
      process, procs, runs, config, received, hist, treeItem, refreshVars>>

\* the stores discovery may find: empty, or with results of earlier runs
\* for paths of the workspace
PriorStores ==
    { [status |-> EmptyMap, failureMessages |-> EmptyMap,
       durations |-> EmptyMap, diffs |-> EmptyMap],
      [status |-> Upsert(Upsert(EmptyMap, FileDottedPath(Path_tests_py), "failed"),
                         FileDottedPath(Path_tests_test_a), "passed"),
       failureMessages |-> Upsert(EmptyMap, FileDottedPath(Path_tests_py), FailureText),
       durations |-> Upsert(EmptyMap, FileDottedPath(Path_tests_test_a), <<"measured">>),
       diffs |-> Upsert(EmptyMap, FileDottedPath(Path_tests_py),
                        [expected |-> <<"1", NL>>, actual |-> <<"2", NL>>])] }

InitDiscovery ==
    /\ files \in FileSystems
    /\ fileNodes = << >>
    /\ rootNodes = Undiscovered
    /\ debounceTimeout = NoTimeout
    /\ \E st \in PriorStores :
           /\ status = st.status
           /\ failureMessages = st.failureMessages
           /\ durations = st.durations
           /\ diffs = st.diffs
    /\ parsingBuffer = << >>
    /\ parsingTestPath = Null
    /\ parsingFailureForPath = Null
    /\ failureBlock = << >>
    /\ testStartTimes = {}
    /\ isParsing = FALSE
    /\ cancelTimeouts = 0
    /\ received = << >>
    /\ consumed = << >>
    /\ log = << >>
    /\ lineNo = 1
    /\ hist = NoHist
    /\ treeItem = NoItem
    /\ config = DefaultConfig
    /\ InitIdle

\* the end of discover, updateFile and removeFile:
\* return this.structureTests(Array.from(this.fileNodes.values()))
Assemble(nodes) ==
    /\ rootNodes' = StructureTests(nodes)
    /\ fileNodes' = SortedInPlace(nodes)
    /\ status' = RegisterNodes(status, nodes)
    /\ UNCHANGED <<failureMessages, durations, diffs, runnerVars>>

\* a variant of discover() in which the failure of one parse rejects the
\* batch
ParsedAllOrNothing(fs, order) ==
    LET RECURSIVE Each(_)
        Each(o) ==
            IF o = << >> THEN << >>
            ELSE LET before == Each(SubSeq(o, 1, Len(o) - 1))
                     fileNode == ParseFile(fs, o[Len(o)])
                 IN  IF fileNode # NoNode THEN MapSet(before, fileNode) ELSE before
    IN  IF \E i \in 1..Len(order) : fs[order[i]] = Unreadable THEN << >>
        ELSE Each(order)

\* the file nodes discover() puts into the cleared index when findFiles
\* enumerates the files in the order given
RECURSIVE Parsed(_, _)
Parsed(fs, order) ==
    IF order = << >> THEN << >>
    ELSE LET before == Parsed(fs, SubSeq(order, 1, Len(order) - 1))
             fileNode == ParseFile(fs, order[Len(order)])
         IN  IF fileNode # NoNode THEN MapSet(before, fileNode) ELSE before

\* TestTreeDataProvider.getChildren() with cachedRoots undefined, at
\* activation or after refreshDiscovery(): cachedRoots = discover()
Discover(order) ==
    /\ LET nodes == Parsed(files, order)
       IN  Assemble(nodes)
    /\ UNCHANGED <<files, debounceTimeout>>

\* the watcher's pattern '**/*test*.py'
Watched(uri) == Includes(Basename(uri), Str_test) /\ EndsWith(uri, Str_py)

\* the watcher reports that the file uri was created or changed and now
\* holds content: TestTreeDataProvider.updateFile(uri)
UpdateFile(uri, content) ==
    /\ rootNodes # Undiscovered
    /\ Watched(uri)
    /\ files' = Upsert(files, uri, content)
    /\ LET node == ParseFile(files', uri)
           nodes == IF node # NoNode THEN MapSet(fileNodes, node)
                    ELSE MapDelete(fileNodes, uri)
       IN  Assemble(nodes)
    /\ UNCHANGED debounceTimeout

\* the watcher reports that the file uri was deleted:
\* TestTreeDataProvider.removeFile(uri)
RemoveFile(uri) ==
    /\ rootNodes # Undiscovered
    /\ Watched(uri)
    /\ uri \in DOMAIN files
    /\ files' = [p \in DOMAIN files \ {uri} |-> files[p]]
    /\ LET nodes == MapDelete(fileNodes, uri)
       IN  Assemble(nodes)
    /\ UNCHANGED debounceTimeout

NextDiscovery ==
    \/ \E order \in Enumerations(FindFiles(files)) : Discover(order)
    \/ \E uri \in Paths, content \in Contents : UpdateFile(uri, content)
    \/ \E uri \in Paths : RemoveFile(uri)

SpecDiscovery == InitDiscovery /\ [][NextDiscovery]_vars

(***************************************************************************)
(* The refresh throttle at work: handlers of the runner ask for a refresh  *)
(* of the tree through triggerRefresh or fire one directly, and time       *)
(* passes.                                                                 *)
(***************************************************************************)
MaxTime == 1200

\* the steps in which time passes, the smaller one first
MinStep == 100
MaxStep == 250

\* the run's state, which the throttle leaves alone
throttleFrame ==
    <<storeVars, parserVars, parsingInterval, cancelTimeouts, djangoTerminal,
      isRunning, process, procs, runs, config, received, hist, treeItem,
      discoveryVars>>

\* a variant of triggerRefresh that fires at every call
TriggerRefreshUnthrottled ==
    /\ now + REFRESH_INTERVAL + MinStep <= MaxTime
    /\ lastRefreshTime' = now
    /\ refreshTimeout' = 0
    /\ refreshed' = [time |-> now, kind |-> "immediate", throttled |-> now,
                     requested |-> FALSE]
    /\ UNCHANGED <<now, throttleFrame>>

\* TestRunner.triggerRefresh, called by setNodeStatus and by parseResults
\* when a status changed
TriggerRefresh ==
    /\ now + REFRESH_INTERVAL + MinStep <= MaxTime
    /\ IF now - lastRefreshTime > REFRESH_INTERVAL
       THEN /\ lastRefreshTime' = now
            /\ refreshTimeout' = 0
            /\ refreshed' = [time |-> now, kind |-> "immediate", throttled |-> now,
                             requested |-> FALSE]
       ELSE /\ refreshTimeout' =
                   IF refreshTimeout = 0 THEN now + REFRESH_INTERVAL
                   ELSE refreshTimeout
            /\ refreshed' = [refreshed EXCEPT !.requested = TRUE]
            /\ UNCHANGED lastRefreshTime
    /\ UNCHANGED <<now, throttleFrame>>

\* the callback of the timer of triggerRefresh, when it is due
RefreshTimeout ==
    /\ refreshTimeout # 0
    /\ now >= refreshTimeout
    /\ lastRefreshTime' = now
    /\ refreshTimeout' = 0
    /\ refreshed' = [time |-> now, kind |-> "flush", throttled |-> now,
                     requested |-> FALSE]
    /\ UNCHANGED <<now, throttleFrame>>

\* this.treeDataProvider.refresh() called by runTests, runFailedTests,
\* cancel and the exit callback
DirectRefresh ==
    /\ refreshed' = [refreshed EXCEPT !.time = now, !.kind = "direct",
                                      !.requested = FALSE]
    /\ UNCHANGED <<now, lastRefreshTime, refreshTimeout, throttleFrame>>

\* time passes
Advance(d) ==
    /\ now + d <= MaxTime
    /\ now' = now + d
    /\ UNCHANGED <<lastRefreshTime, refreshTimeout, refreshed, throttleFrame>>

NextRefresh ==
    \/ TriggerRefresh
    \/ RefreshTimeout
    \/ DirectRefresh
    \/ \E d \in {MinStep, MaxStep} : Advance(d)

\* timers fire and time passes
SpecRefresh ==
    /\ Init
    /\ [][NextRefresh]_vars
    /\ WF_vars(RefreshTimeout)
    /\ WF_vars(\E d \in {MinStep, MaxStep} : Advance(d))

(***************************************************************************)
(* The re-run of the failed tests: a run has ended and left its statuses,  *)
(* and runFailedTests runs the paths that are failed.                       *)
(***************************************************************************)
\* TestStateManager.getFailedTests: the paths whose status is failed
GetFailedTests(st) == {key \in DOMAIN st : st[key] = "failed"}

\* runFailedTests, lines 232-238: the node the re-run watches
FailedTestsNode == [type |-> "folder", dottedPath |-> Null, children |-> << >>]

\* what earlier runs of the tree can leave in the store
RerunStores ==
    {[dottedPath \in {P_m, P_C, P_D, P_t, P_v} |->
         IF dottedPath = P_t THEN t
         ELSE IF dottedPath = P_v THEN v
         ELSE composite] :
       t \in {"failed", "passed"}, v \in {"failed", "passed"},
       composite \in {"unknown", "passed"}}

\* what the re-run may print: t alone passes; or t passes and v is
\* announced; or the two tests fail again
RerunOutputs == {OutGreen, OutCrash, Unlines(<<Str_t_FAIL>>)}

InitRerun ==
    /\ status \in RerunStores
    /\ InitFields
    /\ InitIdle
    /\ InitNoDiscovery

\* TestRunner.runFailedTests with executeCommandInTerminal.  out is what
\* the new process is going to print; spawned is whether the spawn
\* succeeds.
RunFailedTests(out, spawned) ==
    LET id == runs + 1
        failedTests == GetFailedTests(status)
        fresh == [testPaths |-> failedTests]
                     @@ Spawn(FailedTestsNode, out, spawned, config)
    IN  IF failedTests = {} THEN UNCHANGED vars
        ELSE /\ runs < MaxRuns
             /\ runs' = id
             /\ status' = [key \in DOMAIN status |->
                              IF key \in failedTests THEN "pending" ELSE status[key]]
             /\ parsingBuffer' = << >>
             /\ parsingTestPath' = Null
             /\ isRunning' = TRUE
             /\ djangoTerminal' = TRUE
             /\ parsingInterval' = id
             /\ procs' = RunCommand(procs, process, id, fresh)
             /\ process' = id
             /\ received' = << >>
             /\ consumed' = << >>
             /\ log' = << >>
             /\ lineNo' = 1
             /\ hist' = [hist EXCEPT !.cancelled = FALSE, !.mixed = FALSE]
             /\ UNCHANGED <<discoveryVars, refreshVars, treeItem, failureMessages,
                            durations, diffs, parsingFailureForPath, failureBlock,
                            testStartTimes, isParsing, cancelTimeouts, config>>

NextRerun ==
    \/ \E out \in RerunOutputs, spawned \in BOOLEAN : RunFailedTests(out, spawned)
    \/ \E p \in 1..MaxRuns : OnData(p, ChunkOf(p))
    \/ Tick
    \/ \E p \in 1..MaxRuns, code \in {"0", "1"} : ProcessExit(p, code)
    \/ \E p \in 1..MaxRuns : ProcessError(p)

SpecRerun == InitRerun /\ [][NextRerun]_vars

(***************************************************************************)
(* Cancellation at work: a run of all tests is in progress, the store      *)
(* holds what earlier runs and this one left, and cancel() is invoked,     *)
(* also repeatedly and after the process has ended.                        *)
(***************************************************************************)
MaxCancelsInARow == 2

\* the store during the run: any status for the file, for t and for v
CancelStores ==
    {[dottedPath \in {P_m, P_C, P_D, P_t, P_v} |->
         IF dottedPath = P_t THEN t
         ELSE IF dottedPath = P_v THEN v
         ELSE IF dottedPath = P_m THEN file
         ELSE "pending"] :
       t \in Statuses, v \in Statuses, file \in Statuses}

InitCancel ==
    /\ status \in CancelStores
    /\ InitFields
    /\ InitNoDiscovery
    /\ InitRefresh
    /\ parsingInterval = 1
    /\ djangoTerminal = TRUE
    /\ isRunning = TRUE
    /\ process = 1
    /\ procs = [p \in 1..MaxRuns |->
                  IF p = 1
                  THEN Spawn(EffectiveNode(AllRequest), OutGreen, TRUE, DefaultConfig)
                  ELSE NoProc]
    /\ runs = 1

NextCancel ==
    \/ CancelWithin(MaxCancelsInARow)
    \/ CancelTimeout
    \/ OnData(1, Rest(1))
    \/ Tick
    \/ \E code \in {"0", "1", "null"} : ProcessExit(1, code)

SpecCancel == InitCancel /\ [][NextCancel]_vars

(***************************************************************************)
(* The guard of the processing pass at work: the run of the parser, in     *)
(* which a pass may also end by an exception thrown from parseResults.     *)
(***************************************************************************)
\* processParsingBuffer when parseResults throws after the first done lines
\* of the pass: the rest of the lines is lost, the exception is caught and
\* logged, and the finally block resets the flag
ProcessParsingBufferThrown(m, done) ==
    IF m.isParsing \/ Len(m.parsingBuffer) = 0 THEN m
    ELSE LET lastNewlineIndex == LastIndexOf(m.parsingBuffer, NL)
             completeLines == SubSeq(m.parsingBuffer, 1, lastNewlineIndex)
             m1 == [m EXCEPT !.isParsing = TRUE,
                             !.parsingBuffer = Substring(@, lastNewlineIndex),
                             !.consumed = @ \o completeLines]
             lines == Split(StripAnsi(completeLines))
             looped == ParseLines(m1, SubSeq(lines, 1, done), m1.lineNo, 1)
         IN  IF lastNewlineIndex # 0 /\ done < Len(lines)
             THEN [looped EXCEPT !.lineNo = m.lineNo + Len(lines) - 1,
                                 !.isParsing = FALSE]
             ELSE m

\* the interval timer, with a pass that throws
TickThrown(done) ==
    /\ parsingInterval # 0
    /\ Commit(ProcessParsingBufferThrown(Machine, done))
    /\ UNCHANGED <<discoveryVars, refreshVars, treeItem, parsingInterval,
                   cancelTimeouts, djangoTerminal, isRunning, process, procs,
                   runs, config, received, hist>>

NextGuard ==
    \/ NextParser
    \/ \E done \in {0, 1} : TickThrown(done)

SpecGuard == InitParser /\ [][NextGuard]_vars

(***************************************************************************)
(* The settings at work: a run of all tests under any settings of the      *)
(* active profile and of testArguments.                                    *)
(***************************************************************************)
InitFailFast ==
    \E cfg \in Configs :
        LET effectiveNode == EffectiveNode(AllRequest)
        IN  /\ status = SetPendingRecursive(InitStore, effectiveNode)
            /\ failureMessages = EmptyMap
            /\ durations = EmptyMap
            /\ diffs = EmptyMap
            /\ parsingBuffer = << >>
            /\ parsingTestPath = Null
            /\ parsingFailureForPath = Null
            /\ failureBlock = << >>
            /\ testStartTimes = {}
            /\ isParsing = FALSE
            /\ cancelTimeouts = 0
            /\ received = << >>
            /\ consumed = << >>
            /\ log = << >>
            /\ lineNo = 1
            /\ hist = NoHist
            /\ treeItem = NoItem
            /\ config = cfg
            /\ InitNoDiscovery
            /\ InitRefresh
            /\ parsingInterval = 1
            /\ djangoTerminal = TRUE
            /\ isRunning = TRUE
            /\ process = 1
            /\ procs = [p \in 1..MaxRuns |->
                          IF p = 1 THEN Spawn(effectiveNode, OutCrash, TRUE, cfg)
                          ELSE NoProc]
            /\ runs = 1

SpecFailFast == InitFailFast /\ [][NextParser]_vars

(***************************************************************************)
(* Runs over the discovered forest: discovery has produced the forest of   *)
(* the workspace, and a run is started for one of its nodes or for all     *)
(* tests.                                                                  *)
(***************************************************************************)
\* the nodes of a forest, each node before its children
RECURSIVE ForestNodes(_)
ForestNodes(nodes) ==
    IF nodes = << >> THEN << >>
    ELSE <<Head(nodes)>> \o ForestNodes(Head(nodes).children) \o ForestNodes(Tail(nodes))

\* the nodes a run can be started for: the nodes of the forest and the
\* request for all tests
ForestRequests ==
    IF rootNodes = Undiscovered THEN {AllRequest}
    ELSE {ForestNodes(rootNodes)[i] : i \in 1..Len(ForestNodes(rootNodes))}
             \cup {AllRequest}

\* runInTerminal(node) from the tree view or the command
RunForestNode(node) ==
    /\ rootNodes # Undiscovered
    /\ RunInTerminalOver(rootNodes, node, OutCrash, TRUE)

NextForest ==
    \/ \E order \in Enumerations(FindFiles(files)) : Discover(order)
    \/ \E node \in ForestRequests : RunForestNode(node)

SpecForest == InitDiscovery /\ [][NextForest]_vars

(***************************************************************************)
(* A run started after another or over it: the whole suite is run, and    *)
(* run again when the first run's process has ended or while it is alive.  *)
(***************************************************************************)
\* the first process is killed in the middle of the report of t's failure
OutOpenReport == Unlines(<<Str_FAIL_t, Str_v>>)
RestartOutputs == {OutOpenReport, OutInvoice}

\* what process p has not delivered yet arrives in one chunk
NextRestart ==
    \/ \E out \in RestartOutputs : RunInTerminal(AllRequest, out, TRUE)
    \/ \E p \in 1..MaxRuns :
          /\ procs[p].state = "alive"
          /\ OnData(p, Len(procs[p].out) - procs[p].sent)
    \/ Tick
    \/ \E p \in 1..MaxRuns, code \in {"0", "1"} : ProcessExit(p, code)

SpecRestart == Init /\ [][NextRestart]_vars

(***************************************************************************)
(* The watcher at work: files of the workspace are created, changed and    *)
(* deleted after activation; created and changed files reach updateFile    *)
(* through the debounce of 500 ms, deleted files reach removeFile at once.  *)
(***************************************************************************)
WatcherTexts == {TextEmptyClass, TextPlain}

InitWatcher ==
    /\ InitDiscovery
    /\ DOMAIN files = Paths
    /\ \A uri \in Paths : files[uri] \in WatcherTexts

\* watcher.onDidCreate and onDidChange: the file uri now holds content, and
\* debouncedUpdate(uri) clears the pending timeout and sets one for uri
OnDidChange(uri, content) ==
    /\ Watched(uri)
    /\ files' = Upsert(files, uri, content)
    /\ debounceTimeout' = uri
    /\ UNCHANGED <<fileNodes, rootNodes, storeVars, runnerVars>>

\* the timeout fires, 500 ms after the last event:
\* testTreeDataProvider.updateFile(uri), which reads the file as it is now
DebounceTimeout ==
    /\ debounceTimeout # NoTimeout
    /\ debounceTimeout' = NoTimeout
    /\ UNCHANGED files
    /\ IF rootNodes # Undiscovered
       THEN LET node == ParseFile(files, debounceTimeout)
                nodes == IF node # NoNode THEN MapSet(fileNodes, node)
                         ELSE MapDelete(fileNodes, debounceTimeout)
            IN  Assemble(nodes)
       ELSE UNCHANGED <<fileNodes, rootNodes, storeVars, runnerVars>>

NextWatcher ==
    \/ \E order \in Enumerations(FindFiles(files)) : Discover(order)
    \/ \E uri \in Paths, content \in WatcherTexts : OnDidChange(uri, content)
    \/ DebounceTimeout
    \/ \E uri \in Paths : RemoveFile(uri)

SpecWatcher == InitWatcher /\ [][NextWatcher]_vars

(***************************************************************************)
(* Properties                                                              *)
(***************************************************************************)
\* what the statement of a run's result reads of the store: durations are
\* wall-clock times and are left out
StoreView(st, messages, df) ==
    [status |-> st, failureMessages |-> messages, diffs |-> df]

\* the store after the run of process p when its whole output arrives as
\* one chunk before the exit event: one data callback, then the exit
\* callback with its final pass
OneChunk(p) ==
    LET m0 == [status |-> SetPendingRecursive(InitStore, procs[p].watch),
               failureMessages |-> EmptyMap, durations |-> EmptyMap,
               diffs |-> EmptyMap, parsingBuffer |-> procs[p].out,
               parsingTestPath |-> Null, parsingFailureForPath |-> Null,
               failureBlock |-> << >>, testStartTimes |-> {},
               isParsing |-> FALSE, consumed |-> << >>, log |-> << >>,
               lineNo |-> 1, shouldRefresh |-> FALSE]
        m1 == ProcessParsingBuffer(m0, procs[p].watch)
    IN  StoreView(FinalizeNodeStatus(m1.status, procs[p].watch,
                                     CodeOrZero(procs[p].exit) = "0",
                                     IsFailFast(config)),
                  m1.failureMessages, m1.diffs)

\* C1: chunk-boundary invariance.  When the process has exited after all
\* of its output was delivered, in chunks of any sizes with processing
\* passes anywhere between them, the store's statuses, failure details
\* and diffs are those of the run in which the output is one chunk.
C1_ChunkInvariance ==
    (procs[1].state = "exited" /\ procs[1].sent = Len(procs[1].out))
        => StoreView(status, failureMessages, diffs) = OneChunk(1)

\* C2: cancellation completeness.  Once cancel() was called while the
\* run's process was alive, and until the next run is started, no node
\* under the run's root has status pending or running.
C2_CancellationCompleteness ==
    hist.cancelled =>
        \A path \in PathsUnder(procs[runs].watch) :
            Lookup(status, path) \notin InFlight

\* the exit callback of process p runs in this step
ExitStep(p) == procs[p].state # "exited" /\ procs'[p].state = "exited"

\* the statuses the exit callback's finalization starts from: those after
\* its final processing pass
BeforeFinalization(p) ==
    ProcessParsingBuffer([Machine EXCEPT !.isParsing = FALSE], procs[p].watch).status

\* C3: finalization on process exit.  In the exit callback every node
\* under the run's root that is still pending becomes passed if the
\* process exited successfully (exit code 0), skipped if it did not and the
\* run's command has --failfast, unknown if it did not and the command has
\* no --failfast; every other status is left as it is.
C3_Finalization ==
    [][\A p \in 1..MaxRuns :
          ExitStep(p) =>
             \A path \in DOMAIN status' :
                 status'[path] =
                     IF /\ path \in PathsUnder(procs[p].watch)
                        /\ Lookup(BeforeFinalization(p), path) = "pending"
                     THEN IF procs'[p].exit = "0" THEN "passed"
                          ELSE IF ArrayIncludes(procs[p].commandArgs, FailFastFlag)
                               THEN "skipped"
                          ELSE "unknown"
                     ELSE Lookup(BeforeFinalization(p), path)]_vars

\* C7: final flush.  After the process has exited and the exit callback's
\* final pass has run, nothing received from the process is left in the
\* buffer, a last line without a newline included.
C7_FinalFlush ==
    (procs[1].state = "exited" /\ procs[1].sent = Len(procs[1].out))
        => parsingBuffer = << >>

\* the processes that are alive and were not sent SIGTERM by a restart
Active == {p \in 1..MaxRuns : procs[p].state = "alive" /\ ~procs[p].sigterm}

\* C8: single process, never orphaned.  At most one test subprocess is
\* active, and the terminal's process handle refers to the active one.
C8_SingleProcess ==
    /\ Cardinality(Active) <= 1
    /\ \A p \in Active : process = p

\* C9: repeated interrupt.  When the 500 ms wait of a cancellation
\* elapses and the process held by the terminal, which was sent the first
\* interrupt, is still alive, it is sent a second interrupt.
C9_RepeatedInterrupt ==
    [][(/\ cancelTimeouts' = cancelTimeouts - 1
        /\ process # 0
        /\ procs[process].state = "alive"
        /\ procs[process].sigint > 0)
          => procs'[process].sigint = procs[process].sigint + 1]_vars

\* C4 as stated: once the eight lines of the invoice scenario were handed
\* to the parser, test_total is passed and test_tax is failed with the
\* diff expected "100", actual "110".
C4_ScenarioAsStated ==
    consumed = OutInvoice =>
        /\ Lookup(status, P_total) = "passed"
        /\ Lookup(status, P_tax) = "failed"
        /\ P_tax \in DOMAIN diffs
        /\ diffs[P_tax] = [expected |-> <<"1","0","0">>, actual |-> <<"1","1","0">>]

\* C4: once the eight lines of the invoice scenario were handed to the
\* parser, in batches of any sizes, test_total is passed and test_tax is
\* failed with the diff expected "100\n", actual "110\n": each line of a
\* diff's texts is ended by a newline.
C4_Scenario ==
    consumed = OutInvoice =>
        /\ Lookup(status, P_total) = "passed"
        /\ Lookup(status, P_tax) = "failed"
        /\ P_tax \in DOMAIN diffs
        /\ diffs[P_tax] = [expected |-> <<"1","0","0",NL>>, actual |-> <<"1","1","0",NL>>]

\* the scenario was parsed, its diff stored, and the run has ended
C4_Witness ==
    /\ consumed = OutInvoice
    /\ procs[1].state = "exited"
    /\ P_tax \in DOMAIN diffs
    /\ \E i \in DOMAIN log : log[i].path = P_total /\ log[i].status = "passed"

\* the lines handed to the parser's loop so far, numbered as in log
LinesSeen == Split(StripAnsi(consumed))

\* the writes of the per-test lifecycle: a test is opened, its result read
Lifecycle == {i \in DOMAIN log : log[i].kind \in {"start", "result"}}

\* the last lifecycle write before index j of log, 0 for none
LastLifecycleBefore(j) ==
    LET before == {i \in Lifecycle : i < j}
    IN  IF before = {} THEN 0 ELSE Max(before)

\* a test is open when line k is reached or is opened by line k
OpenAt(k) ==
    \/ TestStartExec(LinesSeen[k]).ok
    \/ LET before == {i \in Lifecycle : log[i].line < k}
       IN  before # {} /\ log[Max(before)].kind = "start"

TokenStatus(token) ==
    CASE token = <<"o","k">> -> "passed"
      [] token = <<"s","k","i","p","p","e","d">> -> "skipped"
      [] token = <<"F","A","I","L">> -> "failed"
      [] token = <<"E","R","R","O","R">> -> "failed"
      [] OTHER -> "none"

\* C5 as stated: the path of every opened test ends in ".<method>", and
\* no test is written more than one terminal status by the lines of its
\* lifecycle (result lines and failure headers).
C5_LifecycleAsStated ==
    /\ \A i \in DOMAIN log :
          log[i].kind = "start" => EndsWith(log[i].path, <<".">> \o log[i].what)
    /\ \A i, j \in DOMAIN log :
          (/\ log[i].kind \in {"result", "summary"}
           /\ log[j].kind \in {"result", "summary"}
           /\ log[i].path = log[j].path) => i = j

\* C5: per-test lifecycle.  Every identifier line "<method> (<path>)"
\* handed to the parser opens the test under its normalized path, which
\* is <path> when <path> ends in ".<method>" or is <method> itself and
\* <path>.<method> otherwise, and marks it running; a result token on a
\* line reached while a test is open gives that test passed for ok,
\* skipped for skipped, failed for FAIL and ERROR, and closes it, so each
\* opening is followed by at most one result; the cursor is the test
\* opened last if no result followed it.
C5_Lifecycle ==
    /\ \A k \in 1..Len(LinesSeen) :
          LET ts == TestStartExec(LinesSeen[k])
          IN  (Len(LinesSeen[k]) > 0 /\ ts.ok) =>
                \E i \in DOMAIN log :
                   /\ log[i].line = k
                   /\ log[i].kind = "start"
                   /\ log[i].status = "running"
                   /\ log[i].what = ts.method
                   /\ log[i].path =
                         IF EndsWith(ts.path, <<".">> \o ts.method) \/ ts.path = ts.method
                         THEN ts.path
                         ELSE ts.path \o <<".">> \o ts.method
    /\ \A k \in 1..Len(LinesSeen) :
          (Len(LinesSeen[k]) > 0 /\ ResultExec(LinesSeen[k]).ok /\ OpenAt(k)) =>
             \E j \in DOMAIN log :
                /\ log[j].line = k
                /\ log[j].kind = "result"
                /\ log[j].what = ResultExec(LinesSeen[k]).result
    /\ \A j \in DOMAIN log :
          log[j].kind = "result" =>
             /\ log[j].status = TokenStatus(log[j].what)
             /\ LastLifecycleBefore(j) # 0
             /\ log[LastLifecycleBefore(j)].kind = "start"
             /\ log[LastLifecycleBefore(j)].path = log[j].path
    /\ parsingTestPath =
          IF Lifecycle # {} /\ log[Max(Lifecycle)].kind = "start"
          THEN log[Max(Lifecycle)].path
          ELSE Null

\* a test whose path in parentheses is its method name was opened under
\* that name and given its result
C5_Witness ==
    \E i, j \in DOMAIN log :
        /\ i < j
        /\ log[i].kind = "start"
        /\ log[i].path = log[i].what
        /\ log[j].kind = "result"
        /\ log[j].path = log[i].path
        /\ parsingTestPath = Null

\* C6: stream-order application.  The writes reach the store in the
\* order of their lines: no write caused by a later line precedes a write
\* caused by an earlier one; the text handed to the parser followed by
\* the text still buffered is the text received, which is what the
\* process has printed so far, in its order.
C6_StreamOrder ==
    /\ \A i, j \in DOMAIN log : i < j => log[i].line <= log[j].line
    /\ consumed \o parsingBuffer = received
    /\ received = SubSeq(procs[1].out, 1, procs[1].sent)

\* writes were made for three different lines, five or more in all, while
\* more text is buffered
C6_Witness ==
    /\ \E i, j, k \in DOMAIN log :
          /\ log[i].line < log[j].line
          /\ log[j].line < log[k].line
    /\ Len(log) >= 5
    /\ parsingBuffer # << >>

\* the leaves below a node, and all the nodes below it
RECURSIVE NodesBelow(_)
NodesBelow(node) ==
    UNION {{node.children[i]} \cup NodesBelow(node.children[i]) :
              i \in 1..Len(node.children)}
LeavesBelow(node) == {n \in NodesBelow(node) : Len(n.children) = 0}

\* C10 as stated: the item of a composite node shows running if a leaf
\* below it is running in the store, and pending if no leaf below it is
\* running and one is pending.
C10_AggregationAsStated ==
    \A node \in Composites :
        treeItem.dottedPath = node.dottedPath =>
            /\ (\E n \in LeavesBelow(node) : Lookup(status, n.dottedPath) = "running")
                  => treeItem.status = "running"
            /\ (/\ \A n \in LeavesBelow(node) : Lookup(status, n.dottedPath) # "running"
                /\ \E n \in LeavesBelow(node) : Lookup(status, n.dottedPath) = "pending")
                  => treeItem.status = "pending"

\* C10: aggregation of a running descendant.  The item of a composite
\* node shows running if a leaf below it is running in the store, whatever
\* the other statuses; it shows pending if no node below it, leaf or
\* composite, is running in the store and a leaf below it is pending.
C10_Aggregation ==
    \A node \in Composites :
        treeItem.dottedPath = node.dottedPath =>
            /\ (\E n \in LeavesBelow(node) : Lookup(status, n.dottedPath) = "running")
                  => treeItem.status = "running"
            /\ (/\ \A n \in NodesBelow(node) : Lookup(status, n.dottedPath) # "running"
                /\ \E n \in LeavesBelow(node) : Lookup(status, n.dottedPath) = "pending")
                  => treeItem.status = "pending"

\* the file's item shows running for one running test among passed ones
C10_Witness ==
    /\ treeItem = [dottedPath |-> P_m, status |-> "running"]
    /\ Lookup(status, P_t) = "running"
    /\ Lookup(status, P_v) = "passed"
    /\ Lookup(status, P_C) = "passed"
    /\ Lookup(status, P_D) = "passed"

\* C11: a failure is never masked.  The item of a composite node none of
\* whose descendants has the derived status running or pending shows failed
\* if a leaf below it, at any depth, is failed in the store, whatever the
\* statuses of the other nodes.
C11_FailureNeverMasked ==
    \A node \in Composites :
        (/\ treeItem.dottedPath = node.dottedPath
         /\ \A n \in NodesBelow(node) :
                ComputeStatus(status, n) \notin {"running", "pending"}
         /\ \E n \in LeavesBelow(node) : Lookup(status, n.dottedPath) = "failed")
            => treeItem.status = "failed"

\* the file's item shows failed for one failed test two levels below it,
\* next to a passed test and classes marked passed
C11_Witness ==
    /\ treeItem = [dottedPath |-> P_m, status |-> "failed"]
    /\ Lookup(status, P_t) = "failed"
    /\ Lookup(status, P_v) = "passed"
    /\ Lookup(status, P_C) = "passed"
    /\ Lookup(status, P_D) = "passed"
    /\ Lookup(status, P_m) = "passed"

\* C12: direct failure override.  The item of a composite node whose own
\* entry in the store is failed, and none of whose children has the
\* derived status running or pending, shows failed, also when every child
\* aggregates to passed.
C12_DirectFailureOverride ==
    \A node \in Composites :
        (/\ treeItem.dottedPath = node.dottedPath
         /\ Lookup(status, node.dottedPath) = "failed"
         /\ \A i \in 1..Len(node.children) :
                ComputeStatus(status, node.children[i]) \notin {"running", "pending"})
            => treeItem.status = "failed"

\* the file's item shows failed for its own failed entry while both its
\* classes aggregate to passed
C12_Witness ==
    /\ treeItem = [dottedPath |-> P_m, status |-> "failed"]
    /\ Lookup(status, P_m) = "failed"
    /\ \A i \in 1..Len(NodeM.children) :
           ComputeStatus(status, NodeM.children[i]) = "passed"
    /\ Lookup(status, P_t) = "passed"
    /\ Lookup(status, P_v) = "passed"

\* C13: dottedPath uniqueness.  In every forest discovery has produced, by
\* discover, updateFile or removeFile, no two distinct nodes, of any
\* types, have the same dottedPath.
C13_DottedPathUniqueness ==
    rootNodes # Undiscovered =>
        LET all == ForestNodes(rootNodes)
        IN  \A i, j \in 1..Len(all) :
                i # j => all[i].dottedPath # all[j].dottedPath

\* C14: discovery determinism.  The forest discovery returned is the one
\* tree assembly gives for the file nodes of the index in any order: it
\* has the same nodes and the same order of children at every level
\* whichever way the files were enumerated, their parses completed and
\* their nodes were inserted into the index.
C14_Determinism ==
    rootNodes # Undiscovered =>
        \A o \in Enumerations(1..Len(fileNodes)) :
            StructureTests([i \in 1..Len(fileNodes) |-> fileNodes[o[i]]]) = rootNodes

\* the index holds tests.py before tests/test_a.py, and the forest has the
\* folder tests before the file tests.py, the classes of test_a.py sorted
C14_Witness ==
    /\ Len(fileNodes) = 2
    /\ fileNodes[1].uri = Path_tests_py
    /\ fileNodes[2].uri = Path_tests_test_a
    /\ files[Path_tests_test_a] = TextClasses
    /\ Len(rootNodes) = 2
    /\ rootNodes[1].type = "folder"
    /\ rootNodes[1].children[1].children[1].name = <<"T","e","s","t","_","a">>
    /\ rootNodes[2].uri = Path_tests_py

\* C15: incremental consistency.  After a full discovery followed by any
\* updateFile and removeFile operations, the forest is the one a full
\* discover() over the files of the workspace would produce.
C15_IncrementalConsistency ==
    rootNodes # Undiscovered =>
        \A order \in Enumerations(FindFiles(files)) :
            rootNodes = StructureTests(Parsed(files, order))

\* C16: store coverage of discovery.  After every tree assembly every
\* dottedPath of every node of the forest, folder, file, class or method,
\* has an entry in the store, and the entry of a path that had none before
\* the assembly has the status unknown.
C16_StoreCoverage ==
    [][LET all == ForestNodes(rootNodes')
       IN  \A i \in 1..Len(all) :
               /\ Lookup(status', all[i].dottedPath) # Undefined
               /\ Lookup(status, all[i].dottedPath) = Undefined
                      => Lookup(status', all[i].dottedPath) = "unknown"]_vars

\* C17: status survives rebuilds.  No step of discovery (discover,
\* updateFile, removeFile) changes the status, the duration, the failure
\* detail or the diff of a path that has an entry in the store, and none
\* removes an entry, also when the path's file is parsed again or deleted.
C17_StatusSurvivesRebuilds ==
    [][/\ \A path \in DOMAIN status :
              path \in DOMAIN status' /\ status'[path] = status[path]
       /\ \A path \in DOMAIN durations :
              path \in DOMAIN durations' /\ durations'[path] = durations[path]
       /\ \A path \in DOMAIN failureMessages :
              /\ path \in DOMAIN failureMessages'
              /\ failureMessages'[path] = failureMessages[path]
       /\ \A path \in DOMAIN diffs :
              path \in DOMAIN diffs' /\ diffs'[path] = diffs[path]]_vars

\* tests.py, failed in an earlier run, is in the index again and still
\* failed with its failure detail and diff; tests/test_a.py was deleted
\* and its entry is still passed with its duration
C17_Witness ==
    /\ rootNodes # Undiscovered
    /\ \E i \in 1..Len(fileNodes) : fileNodes[i].dottedPath = FileDottedPath(Path_tests_py)
    /\ Lookup(status, FileDottedPath(Path_tests_py)) = "failed"
    /\ Lookup(failureMessages, FileDottedPath(Path_tests_py)) = FailureText
    /\ FileDottedPath(Path_tests_py) \in DOMAIN diffs
    /\ Path_tests_test_a \notin DOMAIN files
    /\ Lookup(status, FileDottedPath(Path_tests_test_a)) = "passed"
    /\ FileDottedPath(Path_tests_test_a) \in DOMAIN durations
    /\ Lookup(status, FileDottedPath(Path_test_test_b)) = "unknown"

\* C18: test-class recognition.  For every file of the index, a class
\* declaration of its text whose name starts with the test prefix, or one
\* of whose declared base classes is, without its namespace, a known test
\* base class, has opened a class node of that name, with the dottedPath
\* <file>.<class>, under which its test methods are.
C18_TestClassRecognition ==
    \A i \in 1..Len(fileNodes) :
        LET node == fileNodes[i]
            lines == Split(files[node.uri])
        IN  \A k \in 1..Len(lines) :
                LET classMatch == ClassExec(lines[k])
                IN  (/\ classMatch.ok
                     /\ isTestClass(classMatch.className, classMatch.baseClasses))
                    => \E c \in 1..Len(node.children) :
                           /\ node.children[c].type = "class"
                           /\ node.children[c].name = classMatch.className
                           /\ node.children[c].dottedPath =
                                  node.dottedPath \o <<".">> \o classMatch.className

\* C19: a file in which no test method is captured is discarded, also
\* when it declares test classes without test methods: it has no file node
\* in the index, an earlier one being removed on update, and none in the
\* forest.
C19_NoMethodNoFileNode ==
    \A uri \in DOMAIN files :
        LET scanned ==
                ForestNodes(ScanLines(Split(files[uri]), uri, FileDottedPath(uri)).children)
        IN
        (\A k \in 1..Len(scanned) : scanned[k].type # "method") =>
            /\ \A i \in 1..Len(fileNodes) : fileNodes[i].uri # uri
            /\ rootNodes # Undiscovered =>
                   LET all == ForestNodes(rootNodes)
                   IN  \A k \in 1..Len(all) :
                           ~(all[k].type = "file" /\ all[k].uri = uri)

\* C20: child ordering.  After every tree assembly, full or incremental,
\* every sibling sequence of the forest has all its folders before all its
\* other nodes and, within each of the two groups, the nodes in ascending
\* order of name (the order of localeCompare).
C20_ChildOrdering ==
    rootNodes # Undiscovered =>
        \A level \in {rootNodes} \cup {ForestNodes(rootNodes)[k].children :
                                           k \in 1..Len(ForestNodes(rootNodes))} :
            \A i, j \in 1..Len(level) :
                i < j =>
                    /\ ~(level[i].type # "folder" /\ level[j].type = "folder")
                    /\ (level[i].type = "folder") = (level[j].type = "folder")
                           => LocaleCompare(level[i].name, level[j].name) <= 0

\* the roots are the folders test and tests, then the file tests.py, whose
\* node was the first in the index; in test_a.py the class Test_a, declared
\* second, is before the class TestZ
C20_Witness ==
    /\ Len(rootNodes) = 3
    /\ rootNodes[1].type = "folder" /\ rootNodes[1].name = Str_test
    /\ rootNodes[2].type = "folder" /\ rootNodes[2].name = Str_tests
    /\ rootNodes[3].type = "file" /\ rootNodes[3].name = Basename(Path_tests_py)
    /\ fileNodes[1].uri = Path_tests_py
    /\ files[Path_tests_test_a] = TextClasses
    /\ rootNodes[2].children[1].children[1].name = <<"T","e","s","t","_","a">>
    /\ rootNodes[2].children[1].children[2].name = <<"T","e","s","t","Z">>

\* C21 as stated: any two consecutive refresh firings are at least 200 ms
\* apart.
C21_RefreshCoalescingAsStated ==
    [][(refreshed'.time # refreshed.time \/ refreshed'.kind # refreshed.kind)
           /\ refreshed.time >= 0
       => refreshed'.time - refreshed.time >= REFRESH_INTERVAL]_vars

\* C21: refresh coalescing.  Any two consecutive refresh firings made by
\* triggerRefresh, at once or by its delayed flush, are at least 200 ms
\* apart; a call that comes sooner leaves the one timer that is pending as
\* it is; and every call that waits is eventually followed by a firing.
\* The direct refreshes of run start, cancel and exit come on top.
C21_RefreshCoalescing ==
    /\ [][/\ (refreshed'.throttled # refreshed.throttled /\ refreshed.throttled >= 0)
                 => refreshed'.throttled - refreshed.throttled >= REFRESH_INTERVAL
          /\ (refreshTimeout # 0 /\ refreshTimeout' # 0)
                 => refreshTimeout' = refreshTimeout]_vars
    /\ (refreshed.requested ~> ~refreshed.requested)

\* the delayed flush has fired, 200 ms or more after the firing before it
C21_Witness ==
    /\ refreshed.kind = "flush"
    /\ refreshed.time = lastRefreshTime
    /\ refreshed.time >= 2 * REFRESH_INTERVAL + 100
    /\ ~refreshed.requested

\* C22: spawn failure.  When the subprocess of the latest run emits error
\* instead of running, the root of the run (the node run, or every root of
\* the tree for a run of all tests) has a terminal failed or error status in
\* the store after the error was handled, and no second spawn is made.
C22_SpawnFailure ==
    [][\A p \in 1..MaxRuns :
          (p = runs /\ procs[p].state = "error" /\ procs'[p].state = "exited")
          => /\ \A root \in (IF Truthy(procs[p].watch.dottedPath)
                             THEN {procs[p].watch}
                             ELSE {procs[p].watch.children[i] :
                                      i \in 1..Len(procs[p].watch.children)}) :
                    Lookup(status', root.dottedPath) \in {"failed", "error"}
             /\ runs' = runs
             /\ process' = 0]_vars

\* C23: re-run of the failed tests.  runFailedTests sets exactly the paths
\* that are failed to pending, changes no other status and passes exactly
\* those paths to the runner; and once that run's process has ended and
\* the run was finalized, none of the paths re-run is still pending.
C23_RerunFailedTests ==
    [][/\ runs' # runs
          => /\ procs'[runs'].testPaths = GetFailedTests(status)
             /\ GetFailedTests(status) # {}
             /\ \A key \in DOMAIN status :
                   status'[key] = IF status[key] = "failed" THEN "pending"
                                  ELSE status[key]
       /\ \A p \in 1..MaxRuns :
             (p = runs /\ procs[p].state \in {"alive", "error"}
                  /\ procs'[p].state = "exited")
             => \A key \in procs[p].testPaths : Lookup(status', key) # "pending"]_vars

\* C24: cancellation touches only the entries in flight and is idempotent.
\* An invocation of cancel() changes exactly the entries whose status is
\* pending or running, to aborted, and leaves every other entry and the
\* other maps of the store as they are; it leaves no entry in flight, so
\* that a second invocation in a row, or one after the process has ended
\* and the store holds nothing in flight, leaves the store as it is.
C24_CancelFrame ==
    [][hist'.cancels # hist.cancels
       => /\ DOMAIN status' = DOMAIN status
          /\ \A key \in DOMAIN status :
                status'[key] = IF status[key] \in {"pending", "running"}
                               THEN "aborted" ELSE status[key]
          /\ \A key \in DOMAIN status' : status'[key] \notin {"pending", "running"}
          /\ ((\A key \in DOMAIN status : status[key] \notin {"pending", "running"})
                  => status' = status)
          /\ UNCHANGED <<failureMessages, durations, diffs>>]_vars

\* cancel() was invoked twice, the second time after the process had ended,
\* and the store holds aborted entries next to a passed or failed one
C24_Witness ==
    /\ hist.cancels = 2
    /\ procs[1].state = "exited"
    /\ \E key \in DOMAIN status : status[key] = "aborted"
    /\ \E key \in DOMAIN status : status[key] \in {"passed", "failed"}

\* C25: discovery I/O errors are contained.  After every discover,
\* updateFile and removeFile, which all end with a forest, no file that
\* cannot be read has a node in the index, and every file findFiles finds
\* that can be read and holds tests has its file node in the index and in
\* the forest, whatever other files failed.
C25_ErrorsContained ==
    rootNodes # Undiscovered =>
        /\ \A i \in 1..Len(fileNodes) :
              /\ fileNodes[i].uri \in DOMAIN files
              /\ files[fileNodes[i].uri] # Unreadable
        /\ \A uri \in FindFiles(files) :
              (files[uri] # Unreadable /\ ParsedContent[uri][files[uri]] # NoNode)
              => /\ \E i \in 1..Len(fileNodes) : fileNodes[i].uri = uri
                 /\ LET all == ForestNodes(rootNodes)
                    IN  \E i \in 1..Len(all) :
                           /\ all[i].type = "file"
                           /\ all[i].uri = uri
                           /\ Len(all[i].children) =
                                  Len(ParsedContent[uri][files[uri]].children)

\* discover() has run over a file that cannot be read and a file with
\* tests, which is in the forest
C25_Witness ==
    /\ rootNodes # Undiscovered
    /\ Path_tests_py \in DOMAIN files
    /\ files[Path_tests_py] = Unreadable
    /\ Path_tests_test_a \in DOMAIN files
    /\ files[Path_tests_test_a] = TextClasses
    /\ Len(fileNodes) = 1
    /\ fileNodes[1].uri = Path_tests_test_a
    /\ Len(rootNodes) = 1

\* C26: full aggregation precedence.  Building the item of a node only
\* reads the store, and the item's status is one of the seven statuses: for
\* a leaf its own entry, or unknown without one; for a composite the first
\* that applies of running (a child derives running), pending (a child
\* derives pending), failed (its own entry is failed), failed (a child
\* derives failed), passed, aborted, skipped (a child derives it), and
\* otherwise its own entry, or unknown without one.
C26_FullPrecedence ==
    [][\A node \in TreeNodes :
          (treeItem' # treeItem /\ treeItem'.dottedPath = node.dottedPath)
          => LET own == Lookup(status, node.dottedPath)
                 derived == {ComputeStatus(status, node.children[i]) :
                                i \in 1..Len(node.children)}
                 first == <<"running", "pending", "failed", "passed", "aborted", "skipped">>
                 matches == {k \in 1..Len(first) :
                                \/ first[k] \in derived
                                \/ first[k] = "failed" /\ own = "failed"}
             IN  /\ UNCHANGED storeVars
                 /\ treeItem'.status \in Statuses
                 /\ treeItem'.status =
                       IF Len(node.children) > 0 /\ matches # {}
                       THEN first[Min(matches)]
                       ELSE IF own # Undefined THEN own ELSE "unknown"]_vars

\* the file's item shows aborted: class C derives aborted and class D
\* skipped, and the file's own entry, passed, does not count
C26_Witness ==
    /\ treeItem = [dottedPath |-> P_m, status |-> "aborted"]
    /\ Lookup(status, P_m) = "passed"
    /\ Lookup(status, P_t) = "aborted"
    /\ Lookup(status, P_v) = "skipped"
    /\ Lookup(status, P_C) = Undefined
    /\ Lookup(status, P_D) = Undefined

\* C27: failure-block isolation.  A line inside a failure block, after a
\* failure header and before the next separator line, is only accumulated:
\* it opens no test, is read as no result and as no failure header, and so
\* writes no status.
C27_BlockIsolation ==
    \A i \in DOMAIN log :
        log[i].kind \in {"start", "result", "summary"}
        => ~\E h \in DOMAIN log :
               /\ log[h].kind = "summary"
               /\ log[h].line < log[i].line
               /\ \A k \in (log[h].line + 1)..log[i].line :
                      ~StartsWith(LinesSeen[k], SEPARATOR_LINE)

\* C28: leaf summary fallback.  When the run watches a leaf, the summary
\* token sets the leaf's status only if no result line has written a status
\* for the leaf: a status written from the leaf's own result line is never
\* followed by a write of the summary fallback.
C28_LeafSummaryFallback ==
    IsLeaf(procs[1].watch) =>
        \A i, j \in DOMAIN log :
            (/\ log[i].kind = "result"
             /\ log[i].path = procs[1].watch.dottedPath
             /\ log[j].kind = "leaf")
            => j < i

\* C29: non-reentrant processing.  A processing pass runs to its end
\* inside the timer's or the exit callback's handler, and whenever no pass
\* is running the flag is false, also after a pass that threw: so no pass
\* finds the flag set by another one, and every pass starts with the flag
\* false.
C29_NonReentrant ==
    /\ ~isParsing
    /\ ProcessParsingBuffer(Machine, procs[1].watch).isParsing = FALSE

\* a pass threw and lost a line that names a test, a later pass wrote a
\* status, and the exit callback has made the final pass
C29_Witness ==
    /\ procs[1].state = "exited"
    /\ \E k \in DOMAIN LinesSeen :
          /\ TestStartExec(LinesSeen[k]).ok
          /\ \A i \in DOMAIN log : log[i].line # k
          /\ \E i \in DOMAIN log : log[i].line > k

\* C30: fail-fast detection matches the run.  When a run's process ends
\* with a failure, the finalization sets the nodes still pending to skipped
\* exactly when the command built for that run holds --failfast, from the
\* arguments of the active profile or from testArguments; otherwise it sets
\* them to unknown.
C30_FailFastMatchesRun ==
    [][(ExitStep(1) /\ procs'[1].exit = "1")
       => \A path \in PathsUnder(procs[1].watch) :
              Lookup(BeforeFinalization(1), path) = "pending"
              => (status'[path] = "skipped"
                     <=> ArrayIncludes(procs[1].commandArgs, FailFastFlag))]_vars

\* the declarations of test-prefixed methods in a text, in the order of
\* their lines, each with the name of the class the most recent class
\* declaration names (Null before the first)
TestDeclarations ==
    [content \in Texts |->
        LET lines == Split(content)
            IsClass(k) == StartsWith(TrimStart(lines[k]), Str_class \o <<" ">>)
                              /\ ClassExec(lines[k]).ok
            Declared(k) == MethodExec(<<" ">> \o TrimStart(lines[k]), TestMethodPrefix)
            before(k) == {j \in 1..(k - 1) : IsClass(j)}
        IN  [k \in {j \in 1..Len(lines) : Declared(j).ok} |->
                [name |-> Declared(k).methodName,
                 class |-> IF before(k) = {} THEN Null
                           ELSE ClassExec(lines[Max(before(k))]).className]]]

\* C31: method attribution.  For every readable file of the index's
\* scope, every declaration of a test-prefixed method in its text has a
\* method node: under the class node of the most recent class declaration
\* if that class was recognized (it has a class node), and directly under
\* the file node otherwise; its dottedPath is its parent's dottedPath, a
\* dot and its name.
C31_MethodAttribution ==
    rootNodes # Undiscovered =>
        \A uri \in FindFiles(files) :
            files[uri] # Unreadable =>
                LET declared == TestDeclarations[files[uri]]
                    at == {i \in 1..Len(fileNodes) : fileNodes[i].uri = uri}
                    HasMethod(parent, name) ==
                        \E m \in 1..Len(parent.children) :
                            /\ parent.children[m].type = "method"
                            /\ parent.children[m].name = name
                            /\ parent.children[m].dottedPath =
                                   parent.dottedPath \o <<".">> \o name
                IN  \A k \in DOMAIN declared :
                        /\ at # {}
                        /\ LET fileNode == fileNodes[Min(at)]
                               classes == {c \in 1..Len(fileNode.children) :
                                              /\ fileNode.children[c].type = "class"
                                              /\ fileNode.children[c].name = declared[k].class}
                           IN  IF classes # {}
                               THEN \E c \in classes :
                                        HasMethod(fileNode.children[c], declared[k].name)
                               ELSE HasMethod(fileNode, declared[k].name)

\* C32: run start frame.  Starting a run for a node of the forest sets the
\* status of that node and of every one of its descendants to pending and
\* changes the status of no other path; starting the run of all tests sets
\* every node of the forest to pending.
C32_RunStartFrame ==
    [][\A node \in ForestRequests :
          RunForestNode(node)
          => LET subtree == IF Truthy(node.dottedPath) THEN PathsUnder(node)
                            ELSE {ForestNodes(rootNodes)[i].dottedPath :
                                     i \in 1..Len(ForestNodes(rootNodes))}
             IN  /\ \A path \in subtree : Lookup(status', path) = "pending"
                 /\ \A path \in (DOMAIN status \cup DOMAIN status') \ subtree :
                        Lookup(status', path) = Lookup(status, path)]_vars

\* C33: terminal statuses are final within a run.  Once a path has been
\* written a terminal status (passed, failed, skipped, aborted) during the
\* run, no later write of the run gives it another status, not even
\* running for a moment, and no step of the run changes its entry.
C33_TerminalIsFinal ==
    [][/\ \A path \in DOMAIN status :
              status[path] \in Terminal => status'[path] = status[path]
       /\ \A i, j \in DOMAIN log' :
              (i < j /\ log'[i].path = log'[j].path /\ log'[i].status \in Terminal)
              => log'[j].status = log'[i].status]_vars

\* C34: buffer conservation.  After every step of a run the text handed
\* to line processing so far, followed by the buffer, is the text of the
\* chunks received since the run started; a processing pass hands over a
\* batch that ends with a newline, appends it to what was handed over
\* before, and leaves no newline in the buffer.
C34_BufferConservation ==
    [][/\ consumed' \o parsingBuffer' = received'
       /\ consumed' # consumed
              => /\ Len(consumed') > Len(consumed)
                 /\ SubSeq(consumed', 1, Len(consumed)) = consumed
                 /\ consumed'[Len(consumed')] = NL
                 /\ \A k \in 1..Len(parsingBuffer') : parsingBuffer'[k] # NL]_vars

\* two passes or more have handed over lines, and the beginning of a line
\* waits in the buffer while the process is alive
C34_Witness ==
    /\ procs[1].state = "alive"
    /\ parsingBuffer # << >>
    /\ \E k \in 1..(Len(consumed) - 1) : consumed[k] = NL
    /\ lineNo >= 3
    /\ received # procs[1].out

\* C35: the parser starts every run idle.  The step that starts a run
\* leaves the buffer empty, no test path open, no failure path open and no
\* lines of a failure block, however the run before it ended.
C35_ParserStartsIdle ==
    [][runs' # runs
           => /\ parsingBuffer' = << >>
              /\ parsingTestPath' = Null
              /\ parsingFailureForPath' = Null
              /\ failureBlock' = << >>]_vars

\* C36: no cross-run output.  A chunk appended to the buffer was emitted by
\* the subprocess of the run that reset the buffer last: after every step
\* the text received since the reset is what that run's own process has
\* delivered, and the step that appends a chunk delivers it from there.
C36_NoCrossRunOutput ==
    [][/\ \A p \in 1..MaxRuns : procs'[p].sent # procs[p].sent => p = runs'
       /\ runs' >= 1 => received' = SubSeq(procs'[runs'].out, 1, procs'[runs'].sent)]_vars

\* C37: late exit of a replaced process.  When the exit callback of a
\* process that a newer run has replaced runs while the newer run's process
\* is alive, the newer run's timer keeps running, the terminal keeps its
\* handle to the newer process, the runner stays marked as running, and
\* the nodes that are pending after the callback's processing pass stay
\* pending.
C37_LateExitIsInert ==
    [][\A p \in 1..MaxRuns :
          (ExitStep(p) /\ p # runs /\ procs[runs].state = "alive")
              => /\ parsingInterval' = parsingInterval
                 /\ process' = process
                 /\ isRunning' = isRunning
                 /\ \A path \in DOMAIN BeforeFinalization(p) :
                        BeforeFinalization(p)[path] = "pending"
                            => status'[path] = "pending"]_vars

\* C38: success only on a real zero exit.  The exit callback turns a node
\* that is pending after its processing pass into passed only when the
\* subprocess exited with code 0: not when it was ended by a signal (the
\* exit event carries no code) and not when it failed to spawn.
C38_PassedOnlyOnZeroExit ==
    [][\A p \in 1..MaxRuns :
          (/\ ExitStep(p)
           /\ \E path \in PathsUnder(procs[p].watch) :
                 /\ Lookup(BeforeFinalization(p), path) = "pending"
                 /\ Lookup(status', path) = "passed")
              => procs'[p].exit = "0"]_vars

\* C39: no test stays running after the run ends.  Once the run's process
\* has exited and the exit callback with its finalization has run, no node
\* under the run's root has the status running.
C39_NoRunningAfterExit ==
    procs[1].state = "exited"
        => \A path \in PathsUnder(procs[1].watch) : Lookup(status, path) # "running"

\* C40: no file change is lost by debouncing.  The update the watcher
\* scheduled for a created or changed file is never discarded: a pending
\* timeout goes away, or passes to another file, only by firing, which
\* calls updateFile for the file it was set for.
C40_NoChangeLost ==
    [][(debounceTimeout # NoTimeout /\ debounceTimeout' # debounceTimeout)
           => DebounceTimeout]_vars

=============================================================================
